---- MODULE Spec2Model ----
(***************************************************************************)
(* Privileged deletion core of the e-learning application: the edge        *)
(* functions delete-video and delete-course, the database they mutate      *)
(* through the service-role client (tables and foreign keys of the initial *)
(* migration) and the object storage they clean up.  Every awaited         *)
(* data-layer or storage call of a handler is one atomic step.             *)
(***************************************************************************)
EXTENDS Integers, Sequences, FiniteSets, TLC

VARIABLES
  cfg,      \* the scenario the database was populated from (never changes)
  db,       \* the tables, a record of sets of rows
  storage,  \* the objects held by the storage buckets
  proc,     \* one record per request slot: position, locals, response
  mayFail   \* whether data-layer and storage calls may return an error

vars == <<cfg, db, storage, proc, mayFail>>

----------------------------------------------------------------------------
(* Bounds *)

MaxVideos == 2
MaxEvents == 2
MaxRequests == 2
MaxPathLen == 3

Slots == 1..MaxRequests

----------------------------------------------------------------------------
(* Users and roles *)

Users == {"adm", "tA", "tB", "stu"}

UserRolesTable ==
  { [user_id |-> "adm", role |-> "admin"],
    [user_id |-> "tA",  role |-> "teacher"],
    [user_id |-> "tB",  role |-> "teacher"],
    [user_id |-> "stu", role |-> "student"] }

----------------------------------------------------------------------------
(* Strings are sequences of tokens: "/", "?", "#", " ", "%" and the dot     *)
(* segments are the characters that matter to URL parsing, a name such as   *)
(* "storage" or "clip1.mp4" stands for a run of ordinary characters, "%20"  *)
(* and "%25" for the escapes of " " and "%".  A stored URL value is empty   *)
(* (null or ""), a text that is no URL, or a URL: its host and the text     *)
(* that follows the host.                                                   *)

EmptyUrl == [kind |-> "empty", host |-> "", path |-> <<>>]

TextUrl == [kind |-> "text", host |-> "", path |-> <<"clip">>]

\* `/storage/v1/object/public/${bucket}/`
Marker(bucket) ==
  <<"/", "storage", "/", "v1", "/", "object", "/", "public", "/", bucket, "/">>

\* encodeURI: escapes " " and "%", leaves "/", "?", "#" and dots alone
encodeURI(s) ==
  [k \in 1..Len(s) |->
     CASE s[k] = " " -> "%20" [] s[k] = "%" -> "%25" [] OTHER -> s[k]]

\* storage.from(bucket).getPublicUrl(path).data.publicUrl
PublicUrl(bucket, objectPath) ==
  [kind |-> "url", host |-> "proj.supabase.co",
   path |-> encodeURI(Marker(bucket) \o objectPath)]

ExternalUrl == [kind |-> "url", host |-> "youtu.be", path |-> <<"/", "watch">>]

----------------------------------------------------------------------------
(* new URL(url).pathname *)

\* the path ends where the query or the fragment begins
CutQuery(s) ==
  LET ends == { i \in 1..Len(s) : s[i] \in {"?", "#"} }
  IN IF ends = {} THEN s
     ELSE SubSeq(s, 1, (CHOOSE i \in ends : \A j \in ends : i <= j) - 1)

\* the parser escapes a space of the path
EscapeSpaces(s) == [k \in 1..Len(s) |-> IF s[k] = " " THEN "%20" ELSE s[k]]

\* the text after each "/" up to the next one
RECURSIVE Segments(_)
Segments(s) ==
  IF s = <<>> THEN <<>>
  ELSE LET rest == Tail(s)
           cuts == { i \in 1..Len(rest) : rest[i] = "/" }
           n == IF cuts = {} THEN Len(rest) + 1
                ELSE CHOOSE i \in cuts : \A j \in cuts : i <= j
       IN <<SubSeq(rest, 1, n - 1)>> \o Segments(SubSeq(rest, n, Len(rest)))

\* "." is dropped and ".." drops the segment before it; either one as the
\* last segment leaves an empty segment
RECURSIVE RemoveDotSegments(_, _)
RemoveDotSegments(segs, out) ==
  IF segs = <<>> THEN out
  ELSE LET h == Head(segs)
           slot == IF Len(segs) = 1 THEN << <<>> >> ELSE <<>>
       IN IF h = <<"..">>
          THEN RemoveDotSegments(Tail(segs),
                 (IF out = <<>> THEN out ELSE SubSeq(out, 1, Len(out) - 1)) \o slot)
          ELSE IF h = <<".">>
          THEN RemoveDotSegments(Tail(segs), out \o slot)
          ELSE RemoveDotSegments(Tail(segs), Append(out, h))

RECURSIVE JoinSegments(_)
JoinSegments(segs) ==
  IF segs = <<>> THEN <<>>
  ELSE <<"/">> \o Head(segs) \o JoinSegments(Tail(segs))

Pathname(url) ==
  LET segs == RemoveDotSegments(Segments(EscapeSpaces(CutQuery(url.path))), <<>>)
  IN IF segs = <<>> THEN <<"/">> ELSE JoinSegments(segs)

----------------------------------------------------------------------------
(* extractPublicObjectPath *)

\* decodeURIComponent throws a URIError on a "%" that begins no escape
Malformed(s) == \E k \in 1..Len(s) : s[k] = "%"

decodeURIComponent(s) ==
  [k \in 1..Len(s) |->
     CASE s[k] = "%20" -> " " [] s[k] = "%25" -> "%" [] OTHER -> s[k]]

IsPrefixAt(s, m, i) ==
  /\ i + Len(m) - 1 <= Len(s)
  /\ \A k \in 1..Len(m) : s[i + k - 1] = m[k]

\* the last occurrence instead of the first
LastIndexOf(s, m) ==
  LET hits == { i \in 1..Len(s) : IsPrefixAt(s, m, i) }
  IN IF hits = {} THEN 0 ELSE CHOOSE i \in hits : \A j \in hits : i >= j

\* String.prototype.indexOf: the first occurrence, 0 when there is none
IndexOf(s, m) ==
  LET hits == { i \in 1..Len(s) : IsPrefixAt(s, m, i) }
  IN IF hits = {} THEN 0 ELSE CHOOSE i \in hits : \A j \in hits : i <= j

NoPath == [ok |-> FALSE, path |-> <<>>]

\* the resolver refusing every URL that is not hosted by the storage service
extractPublicObjectPathSameHost(url, bucket) ==
  IF url.kind # "url" \/ url.host # "proj.supabase.co" THEN NoPath
  ELSE LET pathname == Pathname(url)
           marker == Marker(bucket)
           idx == IndexOf(pathname, marker)
       IN IF idx = 0 THEN NoPath
          ELSE LET after == SubSeq(pathname, idx + Len(marker), Len(pathname))
               IN IF Malformed(after) THEN NoPath
                  ELSE [ok |-> TRUE, path |-> decodeURIComponent(after)]

extractPublicObjectPath(url, bucket) ==
  IF url.kind # "url" THEN NoPath
  ELSE LET pathname == Pathname(url)
           marker == Marker(bucket)
           idx == IndexOf(pathname, marker)
       IN IF idx = 0 THEN NoPath
          ELSE LET after == SubSeq(pathname, idx + Len(marker), Len(pathname))
               IN IF Malformed(after) THEN NoPath
                  ELSE [ok |-> TRUE, path |-> decodeURIComponent(after)]

\* `videoUrl ? extractPublicObjectPath(videoUrl, bucket) : null`
ResolvePath(url, bucket) ==
  IF url.kind = "empty" THEN NoPath ELSE extractPublicObjectPath(url, bucket)

\* JavaScript truthiness of the resolved path: null and "" are falsy
Truthy(p) == p.ok /\ p.path # <<>>

----------------------------------------------------------------------------
(* Scenarios: the rows and objects present before the first request.       *)

EventTypes == <<"quiz", "simulation", "exam">>

\* what a URL column holds: the public URL of an uploaded object, nothing,
\* a link to another site, the public URL of an object no longer in the
\* bucket, or a value of the scenario's own (field typed)
UrlKinds == {"stored", "empty", "external", "gone"}

VideoId(i) == "v" \o ToString(i)
EventId(i) == "e" \o ToString(i)
CourseId == "c1"

NoObject == <<>>

AllConfigs ==
  [nv : 0..MaxVideos, ne : 0..MaxEvents, pat : 0..2,
   foreign : 0..MaxVideos, urlk : UrlKinds, thumb : UrlKinds,
   typed : {EmptyUrl}, object : {NoObject}]

\* One aspect varies at a time: the event population, the video owners,
\* or the kinds of the stored URLs.
Configs ==
  { c \in AllConfigs :
      /\ c.foreign <= c.nv
      /\ (c.nv = 0 => c.ne = 0)
      /\ (c.ne = 0 => c.pat = 0)
      /\ \/ c.foreign = 0 /\ c.urlk = "stored" /\ c.thumb = "stored"
         \/ c.foreign > 0 /\ c.urlk = "stored" /\ c.thumb = "stored"
            /\ c.ne = 1 /\ c.pat = 0
         \/ /\ c.foreign = 0 /\ c.nv = MaxVideos /\ c.ne = 1 /\ c.pat = 0
            /\ "gone" \in {c.urlk, c.thumb} => {c.urlk, c.thumb} \subseteq {"stored", "gone"} }

VideoOwner(c, i) == IF i = c.foreign THEN "tB" ELSE "tA"

VideoObject(c, i) == <<VideoOwner(c, i), "/", "clip" \o ToString(i) \o ".mp4">>

VideoUrlKind(c, i) == IF i = 1 THEN c.urlk ELSE "stored"

VideoUrl(c, i) ==
  LET k == VideoUrlKind(c, i)
  IN CASE k = "stored"   -> PublicUrl("videos", VideoObject(c, i))
       [] k = "gone"     -> PublicUrl("videos", VideoObject(c, i))
       [] k = "empty"    -> EmptyUrl
       [] k = "external" -> ExternalUrl
       [] k = "typed"    -> c.typed

ThumbObject == <<"tA", "/", CourseId, "/", "thumb.png">>

ThumbUrl(c) ==
  CASE c.thumb = "stored"   -> PublicUrl("course-thumbnails", ThumbObject)
    [] c.thumb = "gone"     -> PublicUrl("course-thumbnails", ThumbObject)
    [] c.thumb = "empty"    -> EmptyUrl
    [] c.thumb = "external" -> ExternalUrl
    [] c.thumb = "typed"    -> c.typed

\* events are dealt round-robin to the videos; their types rotate from pat
EventVideo(c, j) == VideoId(((j - 1) % c.nv) + 1)
EventType(c, j) == EventTypes[((j - 1 + c.pat) % 3) + 1]

InitCourses(c) ==
  { [id |-> CourseId, owner_id |-> "tA", thumbnail_url |-> ThumbUrl(c)] }

InitVideos(c) ==
  { [id |-> VideoId(i), course_id |-> CourseId, owner_id |-> VideoOwner(c, i),
     video_url |-> VideoUrl(c, i)] : i \in 1..c.nv }

InitEvents(c) ==
  { [id |-> EventId(j), video_id |-> EventVideo(c, j), type |-> EventType(c, j)]
      : j \in 1..c.ne }

EventsOfType(c, t) == { e \in InitEvents(c) : e.type = t }

InitDb(c) ==
  [ courses |-> InitCourses(c),
    videos |-> InitVideos(c),
    timeline_events |-> InitEvents(c),
    quizzes |-> { [event_id |-> e.id] : e \in EventsOfType(c, "quiz") },
    quiz_attempts |->
      { [id |-> n, user_id |-> "stu", event_id |-> e.id]
          : n \in 1..2, e \in EventsOfType(c, "quiz") },
    exam_launches |->
      { [user_id |-> "stu", event_id |-> e.id] : e \in EventsOfType(c, "exam") },
    video_event_completions |->
      { [user_id |-> "stu", event_id |-> e.id]
          : e \in EventsOfType(c, "quiz") \cup EventsOfType(c, "simulation") },
    video_progress |->
      { [user_id |-> "stu", video_id |-> v.id] : v \in InitVideos(c) },
    user_roles |-> UserRolesTable ]

\* an uploaded object is in its bucket; of a typed URL the object it was
\* built for, if any
InitStorage(c) ==
  { [bucket |-> "videos", path |-> VideoObject(c, i)]
      : i \in { k \in 1..c.nv : VideoUrlKind(c, k) = "stored" } }
  \cup (IF c.thumb = "stored"
        THEN { [bucket |-> "course-thumbnails", path |-> ThumbObject] }
        ELSE {})
  \cup (IF c.object # NoObject /\ c.urlk = "typed" /\ c.nv >= 1
        THEN { [bucket |-> "videos", path |-> c.object] } ELSE {})
  \cup (IF c.object # NoObject /\ c.thumb = "typed"
        THEN { [bucket |-> "course-thumbnails", path |-> c.object] } ELSE {})

----------------------------------------------------------------------------
(* The database as the service-role client sees it: no row-level security, *)
(* but the foreign keys of the schema, all declared ON DELETE CASCADE.     *)

Ids(rows) == { x.id : x \in rows }

\* foreign keys that would leave the rows of a deleted parent alone
OnDeleteLeave(d) == d

OnDeleteCascade(d) ==
  LET vs == { v \in d.videos : v.course_id \in Ids(d.courses) }
      es == { e \in d.timeline_events : e.video_id \in Ids(vs) }
      Kept(rows) == { x \in rows : x.event_id \in Ids(es) }
  IN [d EXCEPT !.videos = vs,
               !.timeline_events = es,
               !.quizzes = Kept(d.quizzes),
               !.quiz_attempts = Kept(d.quiz_attempts),
               !.exam_launches = Kept(d.exam_launches),
               !.video_event_completions = Kept(d.video_event_completions),
               !.video_progress = { x \in d.video_progress : x.video_id \in Ids(vs) }]

\* .from(table).delete().in("event_id", eventIds)
DeleteInEventIds(d, table, eventIds) ==
  [d EXCEPT ![table] = { x \in d[table] : x.event_id \notin eventIds }]

\* .from(table).delete().eq("video_id", videoId)
DeleteEqVideoId(d, table, videoId) ==
  OnDeleteCascade([d EXCEPT ![table] = { x \in d[table] : x.video_id # videoId }])

\* .from(table).delete().eq("id", id)
DeleteEqId(d, table, id) ==
  OnDeleteCascade([d EXCEPT ![table] = { x \in d[table] : x.id # id }])

\* .from("user_roles").select("role").eq("user_id", userId), as a Set
RolesOf(d, userId) == { x.role : x \in { y \in d.user_roles : y.user_id = userId } }

----------------------------------------------------------------------------
(* Requests *)

Ops == {"delete-video", "delete-course"}

\* caller "" is a credential that getUser() does not verify; json FALSE is
\* a body that req.json() cannot parse; id " " is a blank string, id "" a
\* missing or non-string field
TargetIds(c, op) ==
  IF op = "delete-video"
  THEN { VideoId(i) : i \in 1..c.nv } \cup {"v0", " ", ""}
  ELSE { CourseId, "c0", " ", "" }

Requests(c) ==
  { [op |-> op, caller |-> u, json |-> TRUE, id |-> id]
      : op \in Ops, u \in Users \cup {""},
        id \in TargetIds(c, "delete-video") \cup TargetIds(c, "delete-course") }
  \cup
  { [op |-> op, caller |-> u, json |-> FALSE, id |-> ""]
      : op \in Ops, u \in Users \cup {""} }

WellTargeted(c, rq) == rq.id \in TargetIds(c, rq.op)

NoReq == [op |-> "", caller |-> "", json |-> FALSE, id |-> ""]

\* asString(v) without the trim
asStringOnly(s) == s

\* asString(v).trim()
Trim(s) == IF s = " " THEN "" ELSE s

\* no event fetched, no progress row read
NoEvent == [id |-> "", video_id |-> "", type |-> "", at_seconds |-> 0]

NoProgress == [id |-> 0, unlocked_until_seconds |-> 0]

IdleProc ==
  [ pc |-> "idle", status |-> 0, req |-> NoReq,
    event |-> NoEvent,     \* quiz-attempt, event-complete: event
    correct |-> 0,         \* quiz.correct_index
    published |-> FALSE,   \* video.published
    existing |-> NoProgress, \* existingProgress
    ownerId |-> "",        \* owner_id of the fetched video or course
    thumbUrl |-> EmptyUrl, \* course.thumbnail_url
    eventIds |-> {},       \* cascadeDeleteVideo: eventIds
    todo |-> <<>>,         \* delete-course: videos not yet visited
    cur |-> "",            \* videoId being cascaded
    curUrl |-> EmptyUrl,   \* its video_url
    path |-> NoPath,       \* storagePath / videoPath / thumbPath
    calls |-> {},          \* history: data-layer calls issued
    removed |-> {},        \* history: storage removals issued
    cascaded |-> {},       \* history: videos the cascade was started on
    failedAt |-> "",       \* history: the step whose call returned an error
    failedOn |-> "",       \* history: the video being handled at that step
    rmErrs |-> {},         \* history: the errors storage removals answered
    ncalls |-> {},         \* history: how many calls were issued per key
    visits |-> {},         \* history: how often the loop took up each video
    wrote |-> {},          \* history: the rows inserted or updated
    error |-> <<>> ]       \* the `error` of the response body, none on 200

\* messages that repeat the id the request named
HandlerMessageWithId(rq, status) ==
  CASE status = 401 -> <<"Unauthorized">>
    [] status = 400 -> <<"Bad request">>
    [] status = 404 -> <<"Not found", rq.id>>
    [] status = 403 -> <<"Forbidden", rq.id>>
    [] OTHER -> <<>>

\* the messages the handlers word themselves
HandlerMessage(rq, status) ==
  CASE status = 401 -> <<"Unauthorized">>
    [] status = 400 /\ ~rq.json -> <<"Invalid JSON">>
    [] status = 400 /\ rq.json ->
         IF rq.op = "delete-video" THEN <<"Missing videoId">> ELSE <<"Missing courseId">>
    [] status = 404 ->
         IF rq.op = "delete-video" THEN <<"Video not found">> ELSE <<"Course not found">>
    [] status = 403 -> <<"Forbidden">>
    [] OTHER -> <<>>

\* json(status, ...): the response ends the request
json(p, status) ==
  [IdleProc EXCEPT !.pc = "done", !.status = status, !.req = p.req,
                   !.calls = p.calls, !.removed = p.removed,
                   !.cascaded = p.cascaded, !.failedAt = p.failedAt,
                   !.failedOn = p.failedOn, !.rmErrs = p.rmErrs,
                   !.ncalls = p.ncalls, !.visits = p.visits, !.wrote = p.wrote,
                   !.error = IF status = 500 THEN p.error
                             ELSE HandlerMessage(p.req, status)]

\* an answered request, its histories dropped once the next one arrives
Answered(p) ==
  [p EXCEPT !.calls = {}, !.removed = {}, !.cascaded = {}, !.failedAt = "",
            !.failedOn = "", !.rmErrs = {}, !.ncalls = {}, !.visits = {},
            !.wrote = {}, !.error = <<>>]

\* a tally: one record [id, n] per id counted so far
Count(tally, id) ==
  IF \E x \in tally : x.id = id THEN (CHOOSE x \in tally : x.id = id).n ELSE 0

Bump(tally, id) ==
  { x \in tally : x.id # id } \cup {[id |-> id, n |-> Count(tally, id) + 1]}

Called(p, call, table, key) ==
  [p EXCEPT !.calls = @ \cup {[call |-> call, table |-> table, key |-> key]},
            !.ncalls = Bump(@, key)]

\* .single(): zero rows are an error
single(rows) == [error |-> rows = {}, data |-> rows]

\* .maybeSingle(): zero rows are no error
maybeSingle(rows) == [error |-> FALSE, data |-> rows]

\* what a data-layer call answers: no error (""), or one of its messages
Errs == IF mayFail THEN {"", "relation does not exist"} ELSE {""}

\* error.message of a failed call on a table: the data layer names the table
DataError(err, table) == <<err, table>>

\* the rule with the ownership comparison left out
canDeleteAnyTeacher(roles, userId, ownerId) ==
  "admin" \in roles \/ "teacher" \in roles

\* the rule without the admin alternative
canDeleteOwnerOnly(roles, userId, ownerId) ==
  "teacher" \in roles /\ ownerId = userId

\* the authorization rule shared by both functions
canDelete(roles, userId, ownerId) ==
  "admin" \in roles \/ ("teacher" \in roles /\ ownerId = userId)

----------------------------------------------------------------------------
(* Control flow of cascadeDeleteVideo: the step that follows each step.    *)

\* the cascade returning before the videos delete
CascadeAfterNoVideo(step, hasEvents) ==
  CASE step = "cas_events"       -> IF hasEvents THEN "cas_quizzes" ELSE "cas_progress"
    [] step = "cas_quizzes"      -> "cas_attempts"
    [] step = "cas_attempts"     -> "cas_launches"
    [] step = "cas_launches"     -> "cas_completions"
    [] step = "cas_completions"  -> "cas_tevents"
    [] step = "cas_tevents"      -> "cas_progress"
    [] step = "cas_progress"     -> "cas_end"
    [] step = "cas_video"        -> "cas_end"

\* the cascade without the `eventIds.length > 0` test
CascadeAfterAlwaysEvents(step, hasEvents) ==
  CASE step = "cas_events"       -> "cas_quizzes"
    [] step = "cas_quizzes"      -> "cas_attempts"
    [] step = "cas_attempts"     -> "cas_launches"
    [] step = "cas_launches"     -> "cas_completions"
    [] step = "cas_completions"  -> "cas_tevents"
    [] step = "cas_tevents"      -> "cas_progress"
    [] step = "cas_progress"     -> "cas_video"
    [] step = "cas_video"        -> "cas_end"

\* the cascade deleting the video row first, its dependents afterwards
CascadeAfterParentFirst(step, hasEvents) ==
  CASE step = "cas_events"       -> "cas_video"
    [] step = "cas_video"        -> IF hasEvents THEN "cas_quizzes" ELSE "cas_progress"
    [] step = "cas_quizzes"      -> "cas_attempts"
    [] step = "cas_attempts"     -> "cas_launches"
    [] step = "cas_launches"     -> "cas_completions"
    [] step = "cas_completions"  -> "cas_tevents"
    [] step = "cas_tevents"      -> "cas_progress"
    [] step = "cas_progress"     -> "cas_end"

CascadeAfter(step, hasEvents) ==
  CASE step = "cas_events"       -> IF hasEvents THEN "cas_quizzes" ELSE "cas_progress"
    [] step = "cas_quizzes"      -> "cas_attempts"
    [] step = "cas_attempts"     -> "cas_launches"
    [] step = "cas_launches"     -> "cas_completions"
    [] step = "cas_completions"  -> "cas_tevents"
    [] step = "cas_tevents"      -> "cas_progress"
    [] step = "cas_progress"     -> "cas_video"
    [] step = "cas_video"        -> "cas_end"

InTable(step) ==
  CASE step = "cas_quizzes"     -> "quizzes"
    [] step = "cas_attempts"    -> "quiz_attempts"
    [] step = "cas_launches"    -> "exam_launches"
    [] step = "cas_completions" -> "video_event_completions"

----------------------------------------------------------------------------
(* Straight-line code between two awaits *)

\* delete-course answering as soon as there is no thumbnail to remove
AfterLoopEarlyReturn(p) ==
  LET thumbPath == ResolvePath(p.thumbUrl, "course-thumbnails")
  IN IF Truthy(thumbPath)
     THEN [p EXCEPT !.pc = "dc_thumb", !.path = thumbPath]
     ELSE json(p, 200)

\* delete-course, after the loop: resolve the thumbnail
AfterLoop(p) ==
  LET thumbPath == ResolvePath(p.thumbUrl, "course-thumbnails")
  IN IF Truthy(thumbPath)
     THEN [p EXCEPT !.pc = "dc_thumb", !.path = thumbPath]
     ELSE [p EXCEPT !.pc = "dc_delete"]

\* the loop taking up the first video again and again
LoopHeadNoAdvance(p) ==
  IF p.todo = <<>> THEN AfterLoop(p)
  ELSE [p EXCEPT !.pc = "cas_events",
                 !.cur = Head(p.todo).id,
                 !.curUrl = Head(p.todo).video_url,
                 !.visits = Bump(@, Head(p.todo).id)]

\* delete-course, head of `for (const v of videos ?? [])`
LoopHead(p) ==
  IF p.todo = <<>> THEN AfterLoop(p)
  ELSE [p EXCEPT !.pc = "cas_events",
                 !.cur = Head(p.todo).id,
                 !.curUrl = Head(p.todo).video_url,
                 !.todo = Tail(p.todo),
                 !.visits = Bump(@, Head(p.todo).id)]

\* delete-video issuing the removal whether or not a path was resolved
AfterCascadeRemoveAlways(p) ==
  IF p.req.op = "delete-video"
  THEN [p EXCEPT !.pc = "dv_remove"]
  ELSE LET videoPath == ResolvePath(p.curUrl, "videos")
       IN IF Truthy(videoPath)
          THEN [p EXCEPT !.pc = "dc_remove", !.path = videoPath]
          ELSE LoopHead(p)

\* what follows `if (!del.ok) return ...` when the cascade succeeded
AfterCascade(p) ==
  IF p.req.op = "delete-video"
  THEN IF Truthy(p.path) THEN [p EXCEPT !.pc = "dv_remove"] ELSE json(p, 200)
  ELSE LET videoPath == ResolvePath(p.curUrl, "videos")
       IN IF Truthy(videoPath)
          THEN [p EXCEPT !.pc = "dc_remove", !.path = videoPath]
          ELSE LoopHead(p)

Advance(p, step) ==
  LET next == CascadeAfter(step, p.eventIds # {})
  IN IF next = "cas_end" THEN AfterCascade(p) ELSE [p EXCEPT !.pc = next]

CascadeSteps ==
  {"cas_events", "cas_quizzes", "cas_attempts", "cas_launches",
   "cas_completions", "cas_tevents", "cas_progress", "cas_video"}

\* delete-course swallowing a failed video and going on with the next one
FailedButContinue(p, message) ==
  LET q == [p EXCEPT !.failedAt = p.pc, !.failedOn = p.cur, !.error = message]
  IN IF p.req.op = "delete-course" /\ p.pc \in CascadeSteps \cup {"dc_remove"}
     THEN LoopHead(q)
     ELSE json(q, 500)

\* `if (err) return json(500, ...)`, `if (!del.ok) return json(del.status, ...)`
Failed(p, message) ==
  json([p EXCEPT !.failedAt = p.pc, !.failedOn = p.cur, !.error = message], 500)

----------------------------------------------------------------------------
(* Request entry: identity check and body parsing (both functions)         *)

\* the body read before the caller is looked at
EnterBodyFirst(rq) ==
  LET p == [IdleProc EXCEPT !.req = rq]
  IN IF ~rq.json THEN json(p, 400)
     ELSE IF Trim(rq.id) = "" THEN json(p, 400)
     ELSE IF rq.caller = "" THEN json(p, 401)
     ELSE [p EXCEPT !.pc = IF rq.op = "delete-video" THEN "dv_video" ELSE "dc_course"]

Enter(rq) ==
  LET p == [IdleProc EXCEPT !.req = rq]
  IN IF rq.caller = "" THEN json(p, 401)
     ELSE IF ~rq.json THEN json(p, 400)
     ELSE IF Trim(rq.id) = "" THEN json(p, 400)
     ELSE [p EXCEPT !.pc = IF rq.op = "delete-video" THEN "dv_video" ELSE "dc_course"]

\* requests arrive one after the other; a later one repeats the first
Receive(r) ==
  /\ proc[r].pc = "idle"
  /\ mayFail
  /\ \A q \in Slots : q < r => proc[q].pc = "done"
  /\ \E rq \in Requests(cfg) :
       /\ WellTargeted(cfg, rq)
       /\ r > 1 => rq = proc[1].req
       /\ proc' = [q \in Slots |->
                     IF q = r THEN Enter(rq) ELSE Answered(proc[q])]
  /\ UNCHANGED <<cfg, db, storage, mayFail>>

----------------------------------------------------------------------------
(* delete-video *)

\* ensureCanDeleteVideo: the videos fetch
DV_FetchVideo(r) ==
  LET p0 == proc[r]
      p == Called(p0, "select", "videos", Trim(p0.req.id))
      res == maybeSingle({ v \in db.videos : v.id = Trim(p0.req.id) })
  IN /\ p0.pc = "dv_video"
     /\ \E err \in Errs :
          proc' = [proc EXCEPT ![r] =
            IF err # "" THEN Failed(p, DataError(err, "videos"))
            ELSE IF res.error THEN json(p, 500)
            ELSE IF res.data = {} THEN json(p, 404)
            ELSE LET video == CHOOSE v \in res.data : TRUE
                 IN [p EXCEPT !.pc = "dv_roles", !.ownerId = video.owner_id,
                              !.curUrl = video.video_url]]
     /\ UNCHANGED <<cfg, db, storage, mayFail>>

\* ensureCanDeleteVideo: the user_roles fetch and the decision; then the
\* handler resolves storagePath and enters cascadeDeleteVideo
DV_FetchRoles(r) ==
  LET p0 == proc[r]
      p == Called(p0, "select", "user_roles", p0.req.caller)
      roles == RolesOf(db, p0.req.caller)
  IN /\ p0.pc = "dv_roles"
     /\ \E err \in Errs :
          proc' = [proc EXCEPT ![r] =
            IF err # "" THEN Failed(p, DataError(err, "user_roles"))
            ELSE IF ~canDelete(roles, p0.req.caller, p0.ownerId) THEN json(p, 403)
            ELSE [p EXCEPT !.pc = "cas_events",
                           !.cur = Trim(p0.req.id),
                           !.path = ResolvePath(p0.curUrl, "videos")]]
     /\ UNCHANGED <<cfg, db, storage, mayFail>>

----------------------------------------------------------------------------
(* cascadeDeleteVideo (the same code in both functions) *)

Cascade_FetchEvents(r) ==
  LET p0 == proc[r]
      p == Called(p0, "select", "timeline_events", p0.cur)
      eventIds == Ids({ e \in db.timeline_events : e.video_id = p0.cur })
      owners == { [id |-> v.id, owner_id |-> v.owner_id]
                    : v \in { x \in db.videos : x.id = p0.cur } }
      q == [p EXCEPT !.eventIds = eventIds, !.cascaded = @ \cup owners]
  IN /\ p0.pc = "cas_events"
     /\ \E err \in Errs :
          proc' = [proc EXCEPT ![r] =
            IF err # "" THEN Failed(q, DataError(err, "timeline_events")) ELSE Advance(q, "cas_events")]
     /\ UNCHANGED <<cfg, db, storage, mayFail>>

\* the four deletes by .in("event_id", eventIds)
Cascade_DeleteIn(r) ==
  LET p0 == proc[r]
  IN /\ p0.pc \in {"cas_quizzes", "cas_attempts", "cas_launches", "cas_completions"}
     /\ LET table == InTable(p0.pc)
            p == Called(p0, "delete", table, p0.cur)
        IN \E err \in Errs :
             IF err # ""
             THEN /\ proc' = [proc EXCEPT ![r] = Failed(p, DataError(err, table))]
                  /\ db' = db
             ELSE /\ proc' = [proc EXCEPT ![r] = Advance(p, p0.pc)]
                  /\ db' = DeleteInEventIds(db, table, p0.eventIds)
     /\ UNCHANGED <<cfg, storage, mayFail>>

Cascade_DeleteEvents(r) ==
  LET p0 == proc[r]
      p == Called(p0, "delete", "timeline_events", p0.cur)
  IN /\ p0.pc = "cas_tevents"
     /\ \E err \in Errs :
          IF err # ""
          THEN /\ proc' = [proc EXCEPT ![r] = Failed(p, DataError(err, "timeline_events"))]
               /\ db' = db
          ELSE /\ proc' = [proc EXCEPT ![r] = Advance(p, "cas_tevents")]
               /\ db' = DeleteEqVideoId(db, "timeline_events", p0.cur)
     /\ UNCHANGED <<cfg, storage, mayFail>>

Cascade_DeleteProgress(r) ==
  LET p0 == proc[r]
      p == Called(p0, "delete", "video_progress", p0.cur)
  IN /\ p0.pc = "cas_progress"
     /\ \E err \in Errs :
          IF err # ""
          THEN /\ proc' = [proc EXCEPT ![r] = Failed(p, DataError(err, "video_progress"))]
               /\ db' = db
          ELSE /\ proc' = [proc EXCEPT ![r] = Advance(p, "cas_progress")]
               /\ db' = DeleteEqVideoId(db, "video_progress", p0.cur)
     /\ UNCHANGED <<cfg, storage, mayFail>>

Cascade_DeleteVideo(r) ==
  LET p0 == proc[r]
      p == Called(p0, "delete", "videos", p0.cur)
  IN /\ p0.pc = "cas_video"
     /\ \E err \in Errs :
          IF err # ""
          THEN /\ proc' = [proc EXCEPT ![r] = Failed(p, DataError(err, "videos"))]
               /\ db' = db
          ELSE /\ proc' = [proc EXCEPT ![r] = Advance(p, "cas_video")]
               /\ db' = DeleteEqId(db, "videos", p0.cur)
     /\ UNCHANGED <<cfg, storage, mayFail>>

----------------------------------------------------------------------------
(* Storage removal *)

\* the error messages storage.remove() may answer with for an object
RemoveErrors(obj) ==
  {""} \cup (IF obj \in storage THEN {} ELSE {"Object not found"})
       \cup (IF mayFail THEN {"Internal error"} ELSE {})

\* every storage error ignored
IsFatalNever(msg) == FALSE

\* every storage error taken as a failure
IsFatalAlways(msg) == msg # ""

\* rmErr && !/not.*found/i.test(rmErr.message)
IsFatal(msg) == msg # "" /\ msg # "Object not found"

\* a removal is counted for the video, the thumbnail's for the course
Removing(p, obj) ==
  [p EXCEPT !.removed = @ \cup {obj},
            !.ncalls = Bump(@, IF obj.bucket = "videos" THEN p.cur ELSE Trim(p.req.id))]

\* rmErr of the removal just issued
Answering(p, obj, msg) ==
  IF msg = "" THEN p
  ELSE [p EXCEPT !.rmErrs = @ \cup {[bucket |-> obj.bucket, path |-> obj.path,
                                      message |-> msg]}]

DV_RemoveObject(r) ==
  LET p0 == proc[r]
      obj == [bucket |-> "videos", path |-> p0.path.path]
      p == Removing(p0, obj)
  IN /\ p0.pc = "dv_remove"
     /\ \E msg \in RemoveErrors(obj) :
          IF IsFatal(msg)
          THEN /\ proc' = [proc EXCEPT ![r] = Failed(Answering(p, obj, msg), <<msg>>)]
               /\ storage' = storage
          ELSE /\ proc' = [proc EXCEPT ![r] = json(Answering(p, obj, msg), 200)]
               /\ storage' = storage \ {obj}
     /\ UNCHANGED <<cfg, db, mayFail>>

----------------------------------------------------------------------------
(* delete-course *)

DC_FetchCourse(r) ==
  LET p0 == proc[r]
      p == Called(p0, "select", "courses", Trim(p0.req.id))
      res == maybeSingle({ c \in db.courses : c.id = Trim(p0.req.id) })
  IN /\ p0.pc = "dc_course"
     /\ \E err \in Errs :
          proc' = [proc EXCEPT ![r] =
            IF err # "" THEN Failed(p, DataError(err, "courses"))
            ELSE IF res.error THEN json(p, 500)
            ELSE IF res.data = {} THEN json(p, 404)
            ELSE LET course == CHOOSE c \in res.data : TRUE
                 IN [p EXCEPT !.pc = "dc_roles", !.ownerId = course.owner_id,
                              !.thumbUrl = course.thumbnail_url]]
     /\ UNCHANGED <<cfg, db, storage, mayFail>>

\* getRoles and the decision against course.owner_id
DC_GetRoles(r) ==
  LET p0 == proc[r]
      p == Called(p0, "select", "user_roles", p0.req.caller)
      roles == RolesOf(db, p0.req.caller)
  IN /\ p0.pc = "dc_roles"
     /\ \E err \in Errs :
          proc' = [proc EXCEPT ![r] =
            IF err # "" THEN Failed(p, DataError(err, "user_roles"))
            ELSE IF ~canDelete(roles, p0.req.caller, p0.ownerId) THEN json(p, 403)
            ELSE [p EXCEPT !.pc = "dc_videos"]]
     /\ UNCHANGED <<cfg, db, storage, mayFail>>

\* the orders in which a select without ORDER BY may return a set of rows
Orders(rows) ==
  { s \in [1..Cardinality(rows) -> rows] :
      \A i, j \in 1..Cardinality(rows) : i # j => s[i] # s[j] }

\* the videos of the course, then the head of the loop (ids are never blank,
\* so `if (!videoId) continue` skips nothing)
DC_FetchVideos(r) ==
  LET p0 == proc[r]
      p == Called(p0, "select", "videos", Trim(p0.req.id))
      rows == { [id |-> v.id, video_url |-> v.video_url]
                  : v \in { x \in db.videos : x.course_id = Trim(p0.req.id) } }
  IN /\ p0.pc = "dc_videos"
     /\ \E err \in Errs :
          IF err # "" THEN proc' = [proc EXCEPT ![r] = Failed(p, DataError(err, "videos"))]
          ELSE \E videos \in Orders(rows) :
                 proc' = [proc EXCEPT ![r] = LoopHead([p EXCEPT !.todo = videos])]
     /\ UNCHANGED <<cfg, db, storage, mayFail>>

DC_RemoveVideoObject(r) ==
  LET p0 == proc[r]
      obj == [bucket |-> "videos", path |-> p0.path.path]
      p == Removing(p0, obj)
  IN /\ p0.pc = "dc_remove"
     /\ \E msg \in RemoveErrors(obj) :
          IF IsFatal(msg)
          THEN /\ proc' = [proc EXCEPT ![r] = Failed(Answering(p, obj, msg), <<msg>>)]
               /\ storage' = storage
          ELSE /\ proc' = [proc EXCEPT ![r] = LoopHead(Answering(p, obj, msg))]
               /\ storage' = storage \ {obj}
     /\ UNCHANGED <<cfg, db, mayFail>>

DC_RemoveThumbnail(r) ==
  LET p0 == proc[r]
      obj == [bucket |-> "course-thumbnails", path |-> p0.path.path]
      p == Removing(p0, obj)
  IN /\ p0.pc = "dc_thumb"
     /\ \E msg \in RemoveErrors(obj) :
          IF IsFatal(msg)
          THEN /\ proc' = [proc EXCEPT ![r] = Failed(Answering(p, obj, msg), <<msg>>)]
               /\ storage' = storage
          ELSE /\ proc' = [proc EXCEPT ![r] = [Answering(p, obj, msg) EXCEPT !.pc = "dc_delete"]]
               /\ storage' = storage \ {obj}
     /\ UNCHANGED <<cfg, db, mayFail>>

DC_DeleteCourse(r) ==
  LET p0 == proc[r]
      p == Called(p0, "delete", "courses", Trim(p0.req.id))
  IN /\ p0.pc = "dc_delete"
     /\ \E err \in Errs :
          IF err # ""
          THEN /\ proc' = [proc EXCEPT ![r] = Failed(p, DataError(err, "courses"))]
               /\ db' = db
          ELSE /\ proc' = [proc EXCEPT ![r] = json(p, 200)]
               /\ db' = DeleteEqId(db, "courses", Trim(p0.req.id))
     /\ UNCHANGED <<cfg, storage, mayFail>>

----------------------------------------------------------------------------
(* Specifications *)

Step(r) ==
  \/ DV_FetchVideo(r)
  \/ DV_FetchRoles(r)
  \/ Cascade_FetchEvents(r)
  \/ Cascade_DeleteIn(r)
  \/ Cascade_DeleteEvents(r)
  \/ Cascade_DeleteProgress(r)
  \/ Cascade_DeleteVideo(r)
  \/ DV_RemoveObject(r)
  \/ DC_FetchCourse(r)
  \/ DC_GetRoles(r)
  \/ DC_FetchVideos(r)
  \/ DC_RemoveVideoObject(r)
  \/ DC_RemoveThumbnail(r)
  \/ DC_DeleteCourse(r)

\* Requests one at a time, any caller and body, calls may fail; a later
\* request repeats the first (a client retrying).
Init ==
  /\ cfg \in Configs
  /\ db = InitDb(cfg)
  /\ storage = InitStorage(cfg)
  /\ proc = [r \in Slots |-> IdleProc]
  /\ mayFail = TRUE

Next == \E r \in Slots : Receive(r) \/ Step(r)

Spec == Init /\ [][Next]_vars

\* Concurrent delete-video requests for one video (the first of the course)
\* by callers the authorizer allows, no call failing.
ReceiveConc(r) ==
  /\ proc[r].pc = "idle"
  /\ ~mayFail
  /\ \E rq \in Requests(cfg) :
       /\ rq.op = "delete-video" /\ rq.json /\ rq.caller # ""
       /\ rq.id = VideoId(1)
       /\ canDelete(RolesOf(db, rq.caller), rq.caller,
                    (CHOOSE v \in InitVideos(cfg) : v.id = rq.id).owner_id)
       /\ proc' = [proc EXCEPT ![r] = Enter(rq)]
  /\ UNCHANGED <<cfg, db, storage, mayFail>>

InitConc ==
  /\ cfg \in { c \in Configs : c.nv >= 1 }
  /\ db = InitDb(cfg)
  /\ storage = InitStorage(cfg)
  /\ proc = [r \in Slots |-> IdleProc]
  /\ mayFail = FALSE

DV_Step(r) ==
  \/ DV_FetchVideo(r)
  \/ DV_FetchRoles(r)
  \/ Cascade_FetchEvents(r)
  \/ Cascade_DeleteIn(r)
  \/ Cascade_DeleteEvents(r)
  \/ Cascade_DeleteProgress(r)
  \/ Cascade_DeleteVideo(r)
  \/ DV_RemoveObject(r)

NextConc == \E r \in Slots : ReceiveConc(r) \/ DV_Step(r)

SpecConc == InitConc /\ [][NextConc]_vars

----------------------------------------------------------------------------
(* URL values under test: the owner of course c1 and video v1 deletes the  *)
(* video, or the course, after a URL column was filled either by an upload *)
(* (the public URL of the uploaded object) or by hand (any text: the form  *)
(* takes the video URL as free input).  No call fails.                     *)

SeqsUpTo(A, n) == UNION { [1..k -> A] : k \in 0..n }

\* object names: non-empty segments separated by "/"
IsObjectName(s) ==
  /\ s # <<>> /\ s[1] # "/" /\ s[Len(s)] # "/"
  /\ \A k \in 1..Len(s) - 1 : ~(s[k] = "/" /\ s[k + 1] = "/")

NameTokens == {"/", "clip.mp4", " ", "%", "?", ".."}

\* names of uploaded objects, among them two that contain the marker text
ObjectPaths ==
  { s \in SeqsUpTo(NameTokens, MaxPathLen) : IsObjectName(s) }
  \cup { Tail(Marker(b)) \o <<"clip.mp4">> : b \in {"videos", "course-thumbnails"} }

Hosts == {"proj.supabase.co", "youtu.be"}

\* what precedes the tail of a typed URL: the marker of either bucket, the
\* marker of one bucket inside the folder of the other, or no marker
Prefixes ==
  { Marker("videos"), Marker("course-thumbnails"),
    Marker("course-thumbnails") \o Tail(Marker("videos")),
    Marker("videos") \o Tail(Marker("course-thumbnails")),
    <<"/">> }

UrlBase ==
  [nv |-> MaxVideos, ne |-> 0, pat |-> 0, foreign |-> MaxVideos,
   urlk |-> "stored", thumb |-> "stored", typed |-> EmptyUrl, object |-> NoObject]

Tails ==
  SeqsUpTo(NameTokens \cup {"%20"}, MaxPathLen) \cup {VideoObject(UrlBase, MaxVideos)}

TypedUrls ==
  { [kind |-> "url", host |-> h, path |-> pre \o t]
      : h \in Hosts, pre \in Prefixes, t \in Tails }
  \cup {EmptyUrl, TextUrl}

UrlConfigs ==
  { [UrlBase EXCEPT !.urlk = "typed", !.typed = PublicUrl("videos", P), !.object = P]
      : P \in ObjectPaths }
  \cup { [UrlBase EXCEPT !.urlk = "typed", !.typed = u] : u \in TypedUrls }
  \cup { [UrlBase EXCEPT !.nv = 0, !.foreign = 0, !.thumb = "typed",
                         !.typed = PublicUrl("course-thumbnails", P), !.object = P]
           : P \in ObjectPaths }
  \cup { [UrlBase EXCEPT !.nv = 0, !.foreign = 0, !.thumb = "typed", !.typed = u]
           : u \in TypedUrls }

ReceiveUrl(r) ==
  /\ r = 1 /\ proc[r].pc = "idle"
  /\ ~mayFail
  /\ LET rq == IF cfg.urlk = "typed"
               THEN [op |-> "delete-video", caller |-> "tA", json |-> TRUE,
                     id |-> VideoId(1)]
               ELSE [op |-> "delete-course", caller |-> "tA", json |-> TRUE,
                     id |-> CourseId]
     IN proc' = [proc EXCEPT ![r] = Enter(rq)]
  /\ UNCHANGED <<cfg, db, storage, mayFail>>

InitUrl ==
  /\ cfg \in UrlConfigs
  /\ db = InitDb(cfg)
  /\ storage = InitStorage(cfg)
  /\ proc = [r \in Slots |-> IdleProc]
  /\ mayFail = FALSE

Url_Step(r) ==
  \/ DV_FetchVideo(r)
  \/ DV_FetchRoles(r)
  \/ Cascade_FetchEvents(r)
  \/ Cascade_DeleteProgress(r)
  \/ Cascade_DeleteVideo(r)
  \/ DV_RemoveObject(r)
  \/ DC_FetchCourse(r)
  \/ DC_GetRoles(r)
  \/ DC_FetchVideos(r)
  \/ DC_RemoveThumbnail(r)
  \/ DC_DeleteCourse(r)

NextUrl == \E r \in Slots : ReceiveUrl(r) \/ Url_Step(r)

SpecUrl == InitUrl /\ [][NextUrl]_vars

----------------------------------------------------------------------------
(* One request of any caller and body, calls may fail, and every call that  *)
(* was issued returns: a handler that awaits a call is resumed.            *)

ReceiveLive(r) ==
  /\ r = 1 /\ proc[r].pc = "idle"
  /\ mayFail
  /\ \E rq \in Requests(cfg) :
       /\ WellTargeted(cfg, rq)
       /\ proc' = [proc EXCEPT ![r] = Enter(rq)]
  /\ UNCHANGED <<cfg, db, storage, mayFail>>

NextLive == \E r \in Slots : ReceiveLive(r) \/ Step(r)

\* WF_vars(Step(r)) written out: a step of slot r is enabled exactly while
\* its handler awaits a call, that is while pc is neither idle nor done
CallsReturn(r) ==
  \/ []<>(proc[r].pc \in {"idle", "done"})
  \/ []<><<Step(r)>>_vars

SpecLive == Init /\ [][NextLive]_vars /\ \A r \in Slots : CallsReturn(r)

----------------------------------------------------------------------------
(* delete-storage-object: removes an uploaded file that no row refers to   *)
(* yet.  The body names a bucket and an object path.                       *)

\* json(status, { error: message })
respond(p, status, message) == [json(p, status) EXCEPT !.error = message]

\* String.prototype.trim on a path: leading and trailing blanks go
RECURSIVE TrimPath(_)
TrimPath(s) ==
  IF s = <<>> THEN s
  ELSE IF Head(s) = " " THEN TrimPath(Tail(s))
  ELSE IF s[Len(s)] = " " THEN TrimPath(SubSeq(s, 1, Len(s) - 1))
  ELSE s

\* the test `path.includes(...)` would make
includes(s, m) == IndexOf(s, m) # 0

\* String.prototype.startsWith
startsWith(s, m) == IsPrefixAt(s, m, 1)

\* paths a body may name: the file of each video, the same after a blank,
\* a file that was never uploaded, a folder name alone, the caller's
\* folder below another user's, a name that only begins like a user id,
\* nothing
BodyPaths(c) ==
  { VideoObject(c, i) : i \in 1..c.nv }
  \cup { <<" ">> \o VideoObject(c, i) : i \in 1..c.nv }
  \cup { <<u, "/", "draft.mp4">> : u \in {"tA", "tB"} }
  \cup { <<u, "/">> : u \in {"tA", "tB"} }
  \cup { <<"tB", "/", "tA", "/", "clip1.mp4">>, <<"tA2", "/", "clip1.mp4">>,
         <<"tA">>, <<" ">>, <<>> }

ObjectRequests(c) ==
  { [op |-> "delete-storage-object", caller |-> u, json |-> TRUE,
     bucket |-> b, path |-> P]
      : u \in Users \cup {""}, b \in {"videos", "course-thumbnails", " ", ""},
        P \in BodyPaths(c) \cup {ThumbObject} }
  \cup
  { [op |-> "delete-storage-object", caller |-> u, json |-> FALSE,
     bucket |-> "", path |-> <<>>] : u \in Users \cup {""} }

EnterObject(rq) ==
  LET p == [IdleProc EXCEPT !.req = rq]
      userId == rq.caller
      bucket == Trim(rq.bucket)
      path == TrimPath(rq.path)
  IN IF userId = "" THEN respond(p, 401, <<"Unauthorized">>)
     ELSE IF ~rq.json THEN respond(p, 400, <<"Invalid JSON">>)
     ELSE IF bucket = "" \/ path = <<>> THEN respond(p, 400, <<"Missing bucket/path">>)
     ELSE IF bucket # "videos" THEN respond(p, 400, <<"Unsupported bucket">>)
     ELSE IF ~startsWith(path, <<userId, "/">>) THEN respond(p, 403, <<"Forbidden">>)
     ELSE [p EXCEPT !.pc = "dso_remove", !.path = [ok |-> TRUE, path |-> path]]

\* requests arrive one after the other; a later one repeats the first
ReceiveObject(r) ==
  /\ proc[r].pc = "idle"
  /\ \A q \in Slots : q < r => proc[q].pc = "done"
  /\ \E rq \in ObjectRequests(cfg) :
       /\ r > 1 => rq = proc[1].req
       /\ proc' = [q \in Slots |->
                     IF q = r THEN EnterObject(rq) ELSE Answered(proc[q])]
  /\ UNCHANGED <<cfg, db, storage, mayFail>>

DSO_RemoveObject(r) ==
  LET p0 == proc[r]
      obj == [bucket |-> Trim(p0.req.bucket), path |-> p0.path.path]
      p == [p0 EXCEPT !.removed = @ \cup {obj}]
  IN /\ p0.pc = "dso_remove"
     /\ \E msg \in RemoveErrors(obj) :
          IF IsFatal(msg)
          THEN /\ proc' = [proc EXCEPT ![r] = Failed(Answering(p, obj, msg), <<msg>>)]
               /\ storage' = storage
          ELSE /\ proc' = [proc EXCEPT ![r] = json(Answering(p, obj, msg), 200)]
               /\ storage' = storage \ {obj}
     /\ UNCHANGED <<cfg, db, mayFail>>

InitObject ==
  /\ cfg = UrlBase
  /\ db = InitDb(cfg)
  /\ storage = InitStorage(cfg)
  /\ proc = [r \in Slots |-> IdleProc]
  /\ mayFail = TRUE

NextObject == \E r \in Slots : ReceiveObject(r) \/ DSO_RemoveObject(r)

SpecObject == InitObject /\ [][NextObject]_vars

----------------------------------------------------------------------------
(* bootstrap-admin: grants the admin role to the caller who presents the   *)
(* bootstrap token, as long as no admin exists.  Tokens are sequences of   *)
(* bytes; 32 is the blank.                                                 *)

TokenLimit == 256

bootstrapToken == <<7, 9>>

\* asString(v).trim() on a token
RECURSIVE TrimToken(_)
TrimToken(s) ==
  IF s = <<>> THEN s
  ELSE IF Head(s) = 32 THEN TrimToken(Tail(s))
  ELSE IF s[Len(s)] = 32 THEN TrimToken(SubSeq(s, 1, Len(s) - 1))
  ELSE s

\* aa[i] ?? 0
ByteAt(s, i) == IF i <= Len(s) THEN s[i] ELSE 0

\* out |= x ^ y leaves out = 0 only if x = y at every index
safeEqual(a, b) ==
  LET len == IF Len(a) >= Len(b) THEN Len(a) ELSE Len(b)
  IN (\A i \in 1..len : ByteAt(a, i) = ByteAt(b, i)) /\ Len(a) = Len(b)

\* tokens a body may hold: the token, the token between blanks, the token
\* followed by a zero byte, a prefix of it, another one, one that is too
\* long, a blank one, none
BodyTokens ==
  { bootstrapToken, <<32>> \o bootstrapToken \o <<32>>, bootstrapToken \o <<0>>,
    <<7>>, <<9, 7>>, [k \in 1..(TokenLimit + 1) |-> 7], <<32>>, <<>> }

BootRequests ==
  { [op |-> "bootstrap-admin", caller |-> u, json |-> TRUE, token |-> t]
      : u \in Users \cup {""}, t \in BodyTokens }
  \cup
  { [op |-> "bootstrap-admin", caller |-> u, json |-> FALSE, token |-> <<>>]
      : u \in Users \cup {""} }

EnterBoot(rq) ==
  LET p == [IdleProc EXCEPT !.req = rq]
      token == TrimToken(rq.token)
  IN IF rq.caller = "" THEN respond(p, 401, <<"Unauthorized">>)
     ELSE IF ~rq.json THEN respond(p, 400, <<"Invalid JSON">>)
     ELSE IF token = <<>> \/ Len(token) > TokenLimit
          THEN respond(p, 400, <<"Invalid token">>)
     ELSE IF ~safeEqual(token, bootstrapToken)
          THEN respond(p, 403, <<"Invalid bootstrap token">>)
     ELSE [p EXCEPT !.pc = "boot_check"]

\* requests are served concurrently
ReceiveBoot(r) ==
  /\ proc[r].pc = "idle"
  /\ \E rq \in BootRequests : proc' = [proc EXCEPT ![r] = EnterBoot(rq)]
  /\ UNCHANGED <<cfg, db, storage, mayFail>>

\* .from("user_roles").select("id").eq("role", "admin").limit(1)
Boot_CheckAdmin(r) ==
  LET p0 == proc[r]
      p == Called(p0, "select", "user_roles", "admin")
      existingAdmin == { x \in db.user_roles : x.role = "admin" }
  IN /\ p0.pc = "boot_check"
     /\ \E err \in Errs :
          proc' = [proc EXCEPT ![r] =
            IF err # "" THEN Failed(p, DataError(err, "user_roles"))
            ELSE IF existingAdmin # {}
                 THEN respond(p, 409, <<"Admin already initialized">>)
            ELSE [p EXCEPT !.pc = "boot_insert"]]
     /\ UNCHANGED <<cfg, db, storage, mayFail>>

\* insertErr && !/duplicate key|unique/i.test(insertErr.message)
IsFatalInsert(msg) == msg \notin {"", "duplicate key value violates unique constraint"}

\* what an insert answers when the table holds the rows of these unique
\* keys and the new row has this one
InsertErrors(keys, key) ==
  IF key \in keys THEN {"duplicate key value violates unique constraint"} ELSE Errs

Wrote(p, table, row) == [p EXCEPT !.wrote = @ \cup {[table |-> table, row |-> row]}]

\* .from("user_roles").insert({ user_id: userId, role: "admin" }); the
\* table is unique in (user_id, role)
Boot_InsertAdmin(r) ==
  LET p0 == proc[r]
      row == [user_id |-> p0.req.caller, role |-> "admin"]
      p == Called(p0, "insert", "user_roles", p0.req.caller)
      Key(x) == <<x.user_id, x.role>>
      keys == { Key(x) : x \in db.user_roles }
  IN /\ p0.pc = "boot_insert"
     /\ \E err \in InsertErrors(keys, Key(row)) :
          IF err = ""
          THEN /\ proc' = [proc EXCEPT ![r] = json(Wrote(p, "user_roles", row), 200)]
               /\ db' = [db EXCEPT !.user_roles = @ \cup {row}]
          ELSE /\ proc' = [proc EXCEPT ![r] =
                     IF IsFatalInsert(err) THEN Failed(p, DataError(err, "user_roles"))
                     ELSE json(p, 200)]
               /\ db' = db
     /\ UNCHANGED <<cfg, storage, mayFail>>

\* the roles before the first request: with or without an admin
InitBoot ==
  /\ cfg = UrlBase
  /\ \E roles \in { UserRolesTable, { x \in UserRolesTable : x.role # "admin" } } :
       db = [InitDb(cfg) EXCEPT !.user_roles = roles]
  /\ storage = InitStorage(cfg)
  /\ proc = [r \in Slots |-> IdleProc]
  /\ mayFail = TRUE

NextBoot ==
  \E r \in Slots : ReceiveBoot(r) \/ Boot_CheckAdmin(r) \/ Boot_InsertAdmin(r)

SpecBoot == InitBoot /\ [][NextBoot]_vars

----------------------------------------------------------------------------
(* quiz-attempt and event-complete.  The rows carry the columns the two    *)
(* handlers read and write; the deletes read none of them.                 *)

AtSeconds(j) == 10 * j

CorrectIndex == 1

\* a progress row a request of slot r inserts, an attempt row likewise
ProgressId(r) == MaxVideos + r
AttemptId(r) == 2 + r

LearnDb(c, published) ==
  LET d == InitDb(c)
      n(id) == CHOOSE j \in 1..c.ne : EventId(j) = id
      i(id) == CHOOSE k \in 1..c.nv : VideoId(k) = id
  IN [ d EXCEPT
       !.videos = { [id |-> v.id, course_id |-> v.course_id, owner_id |-> v.owner_id,
                     video_url |-> v.video_url, published |-> published] : v \in @ },
       !.timeline_events = { [id |-> e.id, video_id |-> e.video_id, type |-> e.type,
                              at_seconds |-> AtSeconds(n(e.id))] : e \in @ },
       !.quizzes = { [event_id |-> q.event_id, correct_index |-> CorrectIndex] : q \in @ },
       !.quiz_attempts = { [id |-> a.id, user_id |-> a.user_id, event_id |-> a.event_id,
                            selected_index |-> a.id - 1,
                            is_correct |-> (a.id - 1 = CorrectIndex)] : a \in @ },
       !.video_progress = { [id |-> i(x.video_id), user_id |-> x.user_id,
                             video_id |-> x.video_id,
                             unlocked_until_seconds |-> 0] : x \in @ } ]

LearnOps == {"quiz-attempt", "event-complete"}

\* body.eventId: an event of the video, one that does not exist, none
BodyEventIds(c) == { EventId(j) : j \in 1..c.ne } \cup {EventId(c.ne + 1), ""}

\* indexed: typeof body.selectedIndex === "number"
LearnRequests(c) ==
  { [op |-> op, caller |-> u, json |-> TRUE, eventId |-> e, indexed |-> b,
     selectedIndex |-> k]
      : op \in LearnOps, u \in Users \cup {""}, e \in BodyEventIds(c),
        b \in BOOLEAN, k \in 0..1 }
  \cup
  { [op |-> op, caller |-> u, json |-> FALSE, eventId |-> "", indexed |-> FALSE,
     selectedIndex |-> 0] : op \in LearnOps, u \in Users \cup {""} }

EnterQuizAttempt(rq) ==
  LET p == [IdleProc EXCEPT !.req = rq]
  IN IF rq.caller = "" THEN respond(p, 401, <<"Unauthorized">>)
     ELSE IF ~rq.json THEN respond(p, 400, <<"Invalid JSON">>)
     ELSE IF rq.eventId = "" \/ ~rq.indexed
          THEN respond(p, 400, <<"Missing eventId/selectedIndex">>)
     ELSE [p EXCEPT !.pc = "qa_event"]

\* the caller may be anonymous
EnterEventComplete(rq) ==
  LET p == [IdleProc EXCEPT !.req = rq]
  IN IF ~rq.json THEN respond(p, 400, <<"Invalid JSON">>)
     ELSE IF rq.eventId = "" THEN respond(p, 400, <<"Missing eventId">>)
     ELSE [p EXCEPT !.pc = "ec_event"]

EnterLearn(rq) ==
  IF rq.op = "quiz-attempt" THEN EnterQuizAttempt(rq) ELSE EnterEventComplete(rq)

\* Boolean(video.published || video.owner_id === userId || isAdmin)
canAccessSignedIn(published, ownerId, userId, isAdmin) ==
  published \/ userId # "" \/ isAdmin

canAccess(published, ownerId, userId, isAdmin) ==
  published \/ ownerId = userId \/ isAdmin

\* body.selectedIndex === quiz.correct_index
isCorrectAlways(selectedIndex, correctIndex) == TRUE

isCorrect(selectedIndex, correctIndex) == selectedIndex = correctIndex

\* Math.max(existingProgress?.unlocked_until_seconds ?? 0, event.at_seconds ?? 0)
nextUnlockedAtEvent(existing, event) == event.at_seconds

nextUnlocked(existing, event) ==
  IF existing.unlocked_until_seconds >= event.at_seconds
  THEN existing.unlocked_until_seconds ELSE event.at_seconds

\* what an insert answers: the foreign keys and the unique keys of the
\* schema come first, then whatever else the data layer may answer
InsertAnswers(d, table, row) ==
  IF table = "video_progress"
  THEN IF row.video_id \notin Ids(d.videos)
       THEN {"violates foreign key constraint"}
       ELSE InsertErrors({ <<x.user_id, x.video_id>> : x \in d.video_progress },
                         <<row.user_id, row.video_id>>)
  ELSE IF row.event_id \notin Ids(d.timeline_events)
       THEN {"violates foreign key constraint"}
       ELSE IF table = "video_event_completions"
            THEN InsertErrors({ <<x.user_id, x.event_id>> : x \in d.video_event_completions },
                              <<row.user_id, row.event_id>>)
            ELSE Errs

\* .from("timeline_events").select(...).eq("id", body.eventId).maybeSingle()
FetchEvent(r, at, next) ==
  LET p0 == proc[r]
      p == Called(p0, "select", "timeline_events", p0.req.eventId)
      res == maybeSingle({ e \in db.timeline_events : e.id = p0.req.eventId })
  IN /\ p0.pc = at
     /\ \E err \in Errs :
          proc' = [proc EXCEPT ![r] =
            IF err # "" THEN Failed(p, DataError(err, "timeline_events"))
            ELSE IF res.data = {} THEN respond(p, 404, <<"Event not found">>)
            ELSE LET event == CHOOSE e \in res.data : TRUE
                 IN IF p0.req.op = "event-complete" /\ event.type = "quiz"
                    THEN respond(p, 400, <<"Use quiz-attempt for quiz events">>)
                    ELSE [p EXCEPT !.pc = next,
                            !.event = [id |-> event.id, video_id |-> event.video_id,
                                       type |-> event.type,
                                       at_seconds |-> event.at_seconds]]]
     /\ UNCHANGED <<cfg, db, storage, mayFail>>

\* .from("videos").select("id,published,owner_id").eq("id", event.video_id)
FetchVideo(r, at, next) ==
  LET p0 == proc[r]
      p == Called(p0, "select", "videos", p0.event.video_id)
      res == maybeSingle({ v \in db.videos : v.id = p0.event.video_id })
  IN /\ p0.pc = at
     /\ \E err \in Errs :
          proc' = [proc EXCEPT ![r] =
            IF err # "" THEN Failed(p, DataError(err, "videos"))
            ELSE IF res.data = {} THEN respond(p, 404, <<"Video not found">>)
            ELSE LET video == CHOOSE v \in res.data : TRUE
                 IN [p EXCEPT !.pc = next, !.ownerId = video.owner_id,
                              !.published = video.published]]
     /\ UNCHANGED <<cfg, db, storage, mayFail>>

\* .eq("user_id", userId) with userId null: the filter compares a uuid
\* column with the text null, which the data layer may refuse
LookupErrors(userId) ==
  IF userId = "" THEN Errs \cup {"invalid input syntax for type uuid"} ELSE Errs

\* .from("user_roles").select("id").eq("user_id", userId).eq("role", "admin")
\* and the access decision; an anonymous caller is answered here
FetchAdminRole(r, at, next) ==
  LET p0 == proc[r]
      userId == p0.req.caller
      p == Called(p0, "select", "user_roles", userId)
      adminRoleRow == { x \in db.user_roles : x.user_id = userId /\ x.role = "admin" }
      isAdmin == adminRoleRow # {}
  IN /\ p0.pc = at
     /\ \E err \in LookupErrors(userId) :
          proc' = [proc EXCEPT ![r] =
            IF err # "" THEN Failed(p, DataError(err, "user_roles"))
            ELSE IF ~canAccess(p0.published, p0.ownerId, userId, isAdmin)
                 THEN respond(p, 403, <<"Forbidden">>)
            ELSE IF userId = "" THEN json(p, 200)
            ELSE [p EXCEPT !.pc = next]]
     /\ UNCHANGED <<cfg, db, storage, mayFail>>

\* .from("video_event_completions").insert({ event_id, user_id }); a
\* duplicate is no failure
InsertCompletion(r, at, next) ==
  LET p0 == proc[r]
      row == [user_id |-> p0.req.caller, event_id |-> p0.event.id]
      p == Called(p0, "insert", "video_event_completions", p0.event.id)
  IN /\ p0.pc = at
     /\ \E err \in InsertAnswers(db, "video_event_completions", row) :
          IF err = ""
          THEN /\ proc' = [proc EXCEPT ![r] =
                     [Wrote(p, "video_event_completions", row) EXCEPT !.pc = next]]
               /\ db' = [db EXCEPT !.video_event_completions = @ \cup {row}]
          ELSE /\ proc' = [proc EXCEPT ![r] =
                     IF IsFatalInsert(err)
                     THEN Failed(p, DataError(err, "video_event_completions"))
                     ELSE [p EXCEPT !.pc = next]]
               /\ db' = db
     /\ UNCHANGED <<cfg, storage, mayFail>>

\* .from("video_progress").select("id,unlocked_until_seconds")...maybeSingle();
\* the error of this call is not looked at
SelectProgress(r, at, next) ==
  LET p0 == proc[r]
      p == Called(p0, "select", "video_progress", p0.event.video_id)
      rows == { x \in db.video_progress :
                  x.video_id = p0.event.video_id /\ x.user_id = p0.req.caller }
  IN /\ p0.pc = at
     /\ \E err \in Errs :
          proc' = [proc EXCEPT ![r] =
            IF err # "" \/ rows = {} THEN [p EXCEPT !.pc = next, !.existing = NoProgress]
            ELSE LET x == CHOOSE y \in rows : TRUE
                 IN [p EXCEPT !.pc = next,
                       !.existing = [id |-> x.id,
                          unlocked_until_seconds |-> x.unlocked_until_seconds]]]
     /\ UNCHANGED <<cfg, db, storage, mayFail>>

\* the update by id when a row was read, else the insert
WriteProgress(r, at) ==
  LET p0 == proc[r]
      to == nextUnlocked(p0.existing, p0.event)
      row == [id |-> ProgressId(r), user_id |-> p0.req.caller,
              video_id |-> p0.event.video_id, unlocked_until_seconds |-> to]
      hit == { x \in db.video_progress : x.id = p0.existing.id }
      updated == { [x EXCEPT !.unlocked_until_seconds = to] : x \in hit }
  IN /\ p0.pc = at
     /\ IF p0.existing.id # 0
        THEN LET p == Called(p0, "update", "video_progress", p0.event.video_id)
             IN \E err \in Errs :
                  IF err = ""
                  THEN /\ proc' = [proc EXCEPT ![r] =
                             json([p EXCEPT !.wrote = @ \cup
                                     { [table |-> "video_progress", row |-> x]
                                         : x \in updated }], 200)]
                       /\ db' = [db EXCEPT !.video_progress = (@ \ hit) \cup updated]
                  ELSE /\ proc' = [proc EXCEPT ![r] =
                             Failed(p, DataError(err, "video_progress"))]
                       /\ db' = db
        ELSE LET p == Called(p0, "insert", "video_progress", p0.event.video_id)
             IN \E err \in InsertAnswers(db, "video_progress", row) :
                  IF err = ""
                  THEN /\ proc' = [proc EXCEPT ![r] =
                             json(Wrote(p, "video_progress", row), 200)]
                       /\ db' = [db EXCEPT !.video_progress = @ \cup {row}]
                  ELSE /\ proc' = [proc EXCEPT ![r] =
                             Failed(p, DataError(err, "video_progress"))]
                       /\ db' = db
     /\ UNCHANGED <<cfg, storage, mayFail>>

(* quiz-attempt *)

QA_FetchEvent(r) == FetchEvent(r, "qa_event", "qa_quiz")

\* .from("quizzes").select("id,correct_index").eq("event_id", event.id)
QA_FetchQuiz(r) ==
  LET p0 == proc[r]
      p == Called(p0, "select", "quizzes", p0.event.id)
      res == maybeSingle({ q \in db.quizzes : q.event_id = p0.event.id })
  IN /\ p0.pc = "qa_quiz"
     /\ \E err \in Errs :
          proc' = [proc EXCEPT ![r] =
            IF err # "" THEN Failed(p, DataError(err, "quizzes"))
            ELSE IF res.data = {} THEN respond(p, 404, <<"Quiz not found">>)
            ELSE LET quiz == CHOOSE q \in res.data : TRUE
                 IN [p EXCEPT !.pc = "qa_video", !.correct = quiz.correct_index]]
     /\ UNCHANGED <<cfg, db, storage, mayFail>>

QA_FetchVideo(r) == FetchVideo(r, "qa_video", "qa_role")

QA_FetchAdminRole(r) == FetchAdminRole(r, "qa_role", "qa_attempt")

\* .from("quiz_attempts").insert({ event_id, user_id, selected_index, is_correct })
QA_InsertAttempt(r) ==
  LET p0 == proc[r]
      graded == isCorrect(p0.req.selectedIndex, p0.correct)
      row == [id |-> AttemptId(r), user_id |-> p0.req.caller, event_id |-> p0.event.id,
              selected_index |-> p0.req.selectedIndex, is_correct |-> graded]
      p == Called(p0, "insert", "quiz_attempts", p0.event.id)
  IN /\ p0.pc = "qa_attempt"
     /\ \E err \in InsertAnswers(db, "quiz_attempts", row) :
          IF err = ""
          THEN /\ proc' = [proc EXCEPT ![r] =
                     IF graded
                     THEN [Wrote(p, "quiz_attempts", row) EXCEPT !.pc = "qa_completion"]
                     ELSE json(Wrote(p, "quiz_attempts", row), 200)]
               /\ db' = [db EXCEPT !.quiz_attempts = @ \cup {row}]
          ELSE /\ proc' = [proc EXCEPT ![r] = Failed(p, DataError(err, "quiz_attempts"))]
               /\ db' = db
     /\ UNCHANGED <<cfg, storage, mayFail>>

QA_InsertCompletion(r) == InsertCompletion(r, "qa_completion", "qa_progress")

QA_SelectProgress(r) == SelectProgress(r, "qa_progress", "qa_write")

QA_WriteProgress(r) == WriteProgress(r, "qa_write")

(* event-complete *)

EC_FetchEvent(r) == FetchEvent(r, "ec_event", "ec_video")

EC_FetchVideo(r) == FetchVideo(r, "ec_video", "ec_role")

EC_FetchAdminRole(r) == FetchAdminRole(r, "ec_role", "ec_completion")

EC_InsertCompletion(r) == InsertCompletion(r, "ec_completion", "ec_progress")

EC_SelectProgress(r) == SelectProgress(r, "ec_progress", "ec_write")

EC_WriteProgress(r) == WriteProgress(r, "ec_write")

LearnStep(r) ==
  \/ QA_FetchEvent(r)
  \/ QA_FetchQuiz(r)
  \/ QA_FetchVideo(r)
  \/ QA_FetchAdminRole(r)
  \/ QA_InsertAttempt(r)
  \/ QA_InsertCompletion(r)
  \/ QA_SelectProgress(r)
  \/ QA_WriteProgress(r)
  \/ EC_FetchEvent(r)
  \/ EC_FetchVideo(r)
  \/ EC_FetchAdminRole(r)
  \/ EC_InsertCompletion(r)
  \/ EC_SelectProgress(r)
  \/ EC_WriteProgress(r)

\* one video of teacher tA with its events, published or not
LearnConfigs ==
  { c \in Configs : c.nv = 1 /\ c.ne = MaxEvents /\ c.foreign = 0
                    /\ c.urlk = "stored" /\ c.thumb = "stored" }

\* requests one at a time, any caller and body, calls may fail; a later
\* request repeats the first
ReceiveLearn(r) ==
  /\ proc[r].pc = "idle"
  /\ mayFail
  /\ \A q \in Slots : q < r => proc[q].pc = "done"
  /\ \E rq \in LearnRequests(cfg) :
       /\ r > 1 => rq = proc[1].req
       /\ proc' = [q \in Slots |-> IF q = r THEN EnterLearn(rq) ELSE Answered(proc[q])]
  /\ UNCHANGED <<cfg, db, storage, mayFail>>

InitLearn ==
  /\ cfg \in LearnConfigs
  /\ \E published \in BOOLEAN : db = LearnDb(cfg, published)
  /\ storage = InitStorage(cfg)
  /\ proc = [r \in Slots |-> IdleProc]
  /\ mayFail = TRUE

NextLearn == \E r \in Slots : ReceiveLearn(r) \/ LearnStep(r)

SpecLearn == InitLearn /\ [][NextLearn]_vars

\* Concurrent requests of one learner (the student, who has a progress row,
\* or the teacher previewing, who has none) on the events of a published
\* video, each request of the kind its event takes, no call failing.
ReceiveLearnConc(r) ==
  /\ proc[r].pc = "idle"
  /\ ~mayFail
  /\ \E rq \in LearnRequests(cfg) :
       /\ rq.json /\ rq.indexed /\ rq.caller \in {"stu", "tA"}
       /\ \A q \in Slots : proc[q].pc # "idle" => rq.caller = proc[q].req.caller
       /\ \E e \in db.timeline_events :
            /\ e.id = rq.eventId
            /\ rq.op = "quiz-attempt" <=> e.type = "quiz"
            /\ rq.op = "event-complete" => rq.selectedIndex = 0
       /\ proc' = [proc EXCEPT ![r] = EnterLearn(rq)]
  /\ UNCHANGED <<cfg, db, storage, mayFail>>

InitLearnConc ==
  /\ cfg \in LearnConfigs
  /\ db = LearnDb(cfg, TRUE)
  /\ storage = InitStorage(cfg)
  /\ proc = [r \in Slots |-> IdleProc]
  /\ mayFail = FALSE

NextLearnConc == \E r \in Slots : ReceiveLearnConc(r) \/ LearnStep(r)

SpecLearnConc == InitLearnConc /\ [][NextLearnConc]_vars

----------------------------------------------------------------------------
(* The deletes next to the learners and to the teacher's pages: one        *)
(* delete-video or delete-course of the owner, quiz-attempt and            *)
(* event-complete requests of the student, and the teacher creating an     *)
(* event or a video meanwhile, interleaved statement by statement.         *)

\* the owner deletes the video, or the course
ReceiveDelete(r) ==
  /\ r = 1
  /\ proc[r].pc = "idle"
  /\ ~mayFail
  /\ \E rq \in Requests(cfg) :
       /\ rq.json /\ rq.caller = "tA"
       /\ rq.id = IF rq.op = "delete-video" THEN VideoId(1) ELSE CourseId
       /\ proc' = [proc EXCEPT ![r] = Enter(rq)]
  /\ UNCHANGED <<cfg, db, storage, mayFail>>

\* the student answers a quiz or completes an event; a further request
\* repeats it
ReceiveLearner(r) ==
  /\ r > 1
  /\ proc[r].pc = "idle"
  /\ ~mayFail
  /\ \E rq \in LearnRequests(cfg) :
       /\ rq.json /\ rq.indexed /\ rq.caller = "stu"
       /\ \E e \in InitEvents(cfg) :
            /\ e.id = rq.eventId
            /\ rq.op = "quiz-attempt" <=> e.type = "quiz"
            /\ rq.selectedIndex = IF rq.op = "quiz-attempt" THEN CorrectIndex ELSE 0
       /\ r > 2 => rq = proc[2].req
       /\ proc' = [proc EXCEPT ![r] = EnterLearn(rq)]
  /\ UNCHANGED <<cfg, db, storage, mayFail>>

\* createEvent: .from("timeline_events").insert({ video_id, owner_id, type,
\* at_seconds, ... }) on the first video; refused once the video is gone
CreateEvent ==
  LET row == [id |-> EventId(cfg.ne + 1), video_id |-> VideoId(1),
              type |-> "simulation", at_seconds |-> AtSeconds(cfg.ne + 1)]
  IN /\ ~mayFail
     /\ row.id \notin Ids(db.timeline_events)
     /\ row.video_id \in Ids(db.videos)
     /\ db' = [db EXCEPT !.timeline_events = @ \cup {row}]
     /\ UNCHANGED <<cfg, storage, proc, mayFail>>

\* .from("videos").insert({ course_id, owner_id, video_url: vUrl || null,
\* published: false, ... }); refused once the course is gone
CreateVideo ==
  LET row == [id |-> VideoId(cfg.nv + 1), course_id |-> CourseId, owner_id |-> "tA",
              video_url |-> EmptyUrl, published |-> FALSE]
  IN /\ ~mayFail
     /\ row.id \notin Ids(db.videos)
     /\ row.course_id \in Ids(db.courses)
     /\ db' = [db EXCEPT !.videos = @ \cup {row}]
     /\ UNCHANGED <<cfg, storage, proc, mayFail>>

InitMeanwhile ==
  /\ cfg \in LearnConfigs
  /\ db = LearnDb(cfg, TRUE)
  /\ storage = InitStorage(cfg)
  /\ proc = [r \in Slots |-> IdleProc]
  /\ mayFail = FALSE

NextMeanwhile ==
  \/ \E r \in Slots : ReceiveDelete(r) \/ ReceiveLearner(r) \/ Step(r) \/ LearnStep(r)
  \/ CreateEvent
  \/ CreateVideo

SpecMeanwhile == InitMeanwhile /\ [][NextMeanwhile]_vars

----------------------------------------------------------------------------
(* Vocabulary of the properties *)

IsDone(r) == proc[r].pc = "done"

\* answered, and no later request has arrived: the histories are its own
Fresh(r) == IsDone(r) /\ \A q \in Slots : q > r => proc[q].pc = "idle"

HasRole(u, role) == [user_id |-> u, role |-> role] \in UserRolesTable

\* the rows a request names, as they were before the first request
TargetRows(c, rq) ==
  IF rq.op = "delete-video"
  THEN { v \in InitVideos(c) : v.id = rq.id }
  ELSE IF rq.op = "delete-course" THEN { x \in InitCourses(c) : x.id = rq.id }
  ELSE {}

OwnerOf(c, rq) == (CHOOSE x \in TargetRows(c, rq) : TRUE).owner_id

ChildTables ==
  {"quizzes", "quiz_attempts", "exam_launches", "video_event_completions"}

\* nothing in d refers to video vid or to one of the events evs
VideoGone(d, vid, evs) ==
  /\ vid \notin Ids(d.videos)
  /\ \A e \in d.timeline_events : e.video_id # vid /\ e.id \notin evs
  /\ \A t \in ChildTables : \A x \in d[t] : x.event_id \notin evs
  /\ \A x \in d.video_progress : x.video_id # vid

EventsOfVideo(c, vid) == Ids({ e \in InitEvents(c) : e.video_id = vid })

Deletes(p) == { c \in p.calls : c.call = "delete" }

----------------------------------------------------------------------------
(* C1: a verified caller naming an existing video or course is answered    *)
(* 200 only if it holds admin, or holds teacher and is the owner; any      *)
(* other such caller is answered 403 (500 if one of the two reads failed), *)
(* issues no delete and no storage removal, and leaves every row and       *)
(* object in place.                                                        *)
C1_AuthorizationInvariant ==
  \A r \in Slots :
    LET p == proc[r]
        rq == p.req
    IN (IsDone(r) /\ rq.caller # "" /\ rq.json /\ TargetRows(cfg, rq) # {}) =>
         LET allow == \/ HasRole(rq.caller, "admin")
                      \/ HasRole(rq.caller, "teacher") /\ rq.caller = OwnerOf(cfg, rq)
         IN /\ p.status = 200 => allow
            /\ ~allow =>
                 /\ p.status \in {403, 500}
                 /\ db = InitDb(cfg) /\ storage = InitStorage(cfg)
                 /\ Fresh(r) =>
                      /\ p.failedAt = "" => p.status = 403
                      /\ Deletes(p) = {} /\ p.removed = {}

\* C1 as first stated: every such other caller is answered 403.
C1_DeniedAlways403 ==
  \A r \in Slots :
    LET p == proc[r]
        rq == p.req
    IN (IsDone(r) /\ rq.caller # "" /\ rq.json /\ TargetRows(cfg, rq) # {}) =>
         LET allow == \/ HasRole(rq.caller, "admin")
                      \/ HasRole(rq.caller, "teacher") /\ rq.caller = OwnerOf(cfg, rq)
         IN /\ p.status = 200 => allow
            /\ ~allow => p.status = 403 /\ db = InitDb(cfg) /\ storage = InitStorage(cfg)

C1_Witness ==
  \E r \in Slots :
    /\ IsDone(r) /\ proc[r].status = 403
    /\ proc[r].req.op = "delete-video"
    /\ HasRole(proc[r].req.caller, "teacher")
    /\ TargetRows(cfg, proc[r].req) # {}
    /\ OwnerOf(cfg, proc[r].req) # proc[r].req.caller

----------------------------------------------------------------------------
(* C2: every video the cascade is started on is one the caller is allowed  *)
(* to delete by the rule applied to that video's own owner.                *)
C2_CascadeAuthorizedPerVideo ==
  \A r \in Slots : \A x \in proc[r].cascaded :
    \/ HasRole(proc[r].req.caller, "admin")
    \/ HasRole(proc[r].req.caller, "teacher") /\ proc[r].req.caller = x.owner_id

----------------------------------------------------------------------------
(* C3: once a delete-video request is answered 200, the video row, its     *)
(* timeline events, every quiz, attempt, exam launch and completion of     *)
(* those events, and its progress rows are all absent.                     *)
C3_CascadeCompleteness ==
  \A r \in Slots :
    (IsDone(r) /\ proc[r].status = 200 /\ proc[r].req.op = "delete-video") =>
      VideoGone(db, proc[r].req.id, EventsOfVideo(cfg, proc[r].req.id))

C3_Witness ==
  \E r \in Slots :
    /\ IsDone(r) /\ proc[r].status = 200 /\ proc[r].req.op = "delete-video"
    /\ \E e1, e2 \in InitEvents(cfg) :
         /\ e1.video_id = proc[r].req.id /\ e2.video_id = proc[r].req.id
         /\ e1.type # e2.type

----------------------------------------------------------------------------
(* C4: once a delete-course request is answered 200, the course row is     *)
(* absent, no video row names the course, and nothing refers to any of the *)
(* course's former videos or their events.                                 *)
C4_CourseCascadeCompleteness ==
  \A r \in Slots :
    (IsDone(r) /\ proc[r].status = 200 /\ proc[r].req.op = "delete-course") =>
      /\ proc[r].req.id \notin Ids(db.courses)
      /\ \A v \in db.videos : v.course_id # proc[r].req.id
      /\ \A v \in InitVideos(cfg) :
           v.course_id = proc[r].req.id => VideoGone(db, v.id, EventsOfVideo(cfg, v.id))

C4_Witness ==
  \E r \in Slots :
    /\ IsDone(r) /\ proc[r].status = 200 /\ proc[r].req.op = "delete-course"
    /\ cfg.nv >= 2 /\ cfg.ne >= 1

----------------------------------------------------------------------------
(* C5: no row ever refers to a missing parent, and a parent row is only    *)
(* deleted once nothing refers to it: children go before parents, also     *)
(* when a step fails and the request stops.                                *)
NoDanglingRow(d) ==
  /\ \A v \in d.videos : v.course_id \in Ids(d.courses)
  /\ \A e \in d.timeline_events : e.video_id \in Ids(d.videos)
  /\ \A x \in d.video_progress : x.video_id \in Ids(d.videos)
  /\ \A t \in ChildTables : \A x \in d[t] : x.event_id \in Ids(d.timeline_events)

ChildrenFirst(d, e) ==
  /\ \A c \in Ids(d.courses) \ Ids(e.courses) :
       \A v \in d.videos : v.course_id # c
  /\ \A vid \in Ids(d.videos) \ Ids(e.videos) :
       /\ \A x \in d.timeline_events : x.video_id # vid
       /\ \A x \in d.video_progress : x.video_id # vid
  /\ \A ev \in Ids(d.timeline_events) \ Ids(e.timeline_events) :
       \A t \in ChildTables : \A x \in d[t] : x.event_id # ev

C5_ChildrenBeforeParents ==
  [][NoDanglingRow(db) /\ NoDanglingRow(db') /\ ChildrenFirst(db, db')]_vars

C5_Witness ==
  \E r \in Slots :
    /\ IsDone(r) /\ proc[r].status = 500
    /\ proc[r].failedAt = "cas_tevents"
    /\ db.quizzes # InitDb(cfg).quizzes

----------------------------------------------------------------------------
(* Storage objects a request is to remove *)

VideoObjects(c, vid) ==
  { [bucket |-> "videos", path |-> ResolvePath(v.video_url, "videos").path]
      : v \in { x \in InitVideos(c) :
                  x.id = vid /\ Truthy(ResolvePath(x.video_url, "videos")) } }

ThumbObjects(c, cid) ==
  { [bucket |-> "course-thumbnails",
     path |-> ResolvePath(x.thumbnail_url, "course-thumbnails").path]
      : x \in { y \in InitCourses(c) :
                  y.id = cid /\ Truthy(ResolvePath(y.thumbnail_url, "course-thumbnails")) } }

\* the rows and objects request rq is to delete are all gone
AllGone(c, rq) ==
  IF rq.op = "delete-video"
  THEN /\ VideoGone(db, rq.id, EventsOfVideo(c, rq.id))
       /\ VideoObjects(c, rq.id) \cap storage = {}
  ELSE /\ rq.id \notin Ids(db.courses)
       /\ \A v \in db.videos : v.course_id # rq.id
       /\ \A v \in InitVideos(c) :
            v.course_id = rq.id =>
              /\ VideoGone(db, v.id, EventsOfVideo(c, v.id))
              /\ VideoObjects(c, v.id) \cap storage = {}
       /\ ThumbObjects(c, rq.id) \cap storage = {}

Allowed(c, rq) ==
  /\ rq.caller # "" /\ rq.json /\ TargetRows(c, rq) # {}
  /\ \/ HasRole(rq.caller, "admin")
     \/ HasRole(rq.caller, "teacher") /\ rq.caller = OwnerOf(c, rq)

----------------------------------------------------------------------------
(* C6: whenever delete-course or delete-video is answered 200, also on a   *)
(* retry after failed attempts, the rows are gone and so are the video     *)
(* objects and the thumbnail object the request's resources resolved to.   *)
C6_SuccessMeansAllGone ==
  \A r \in Slots :
    (IsDone(r) /\ proc[r].status = 200) => AllGone(cfg, proc[r].req)

----------------------------------------------------------------------------
(* C7: when a call made for a video fails during delete-course, the        *)
(* request is answered 500 at once: the course row stays, no thumbnail     *)
(* removal and no courses delete is issued, no call is made for a video    *)
(* beyond the failing one, the videos not reached keep all their rows,     *)
(* and the videos handled before it stay deleted with their descendants.   *)
Untouched(c, vid) ==
  /\ { v \in db.videos : v.id = vid } = { v \in InitVideos(c) : v.id = vid }
  /\ { e \in db.timeline_events : e.video_id = vid }
       = { e \in InitEvents(c) : e.video_id = vid }
  /\ \A t \in ChildTables :
       { x \in db[t] : x.event_id \in EventsOfVideo(c, vid) }
         = { x \in InitDb(c)[t] : x.event_id \in EventsOfVideo(c, vid) }
  /\ { x \in db.video_progress : x.video_id = vid }
       = { x \in InitDb(c).video_progress : x.video_id = vid }
  /\ VideoObjects(c, vid) \cap InitStorage(c) \subseteq storage

C7_CourseAbortsOnVideoFailure ==
  \A r \in Slots :
    LET p == proc[r]
    IN (p.req.op = "delete-course" /\ p.failedAt \in CascadeSteps \cup {"dc_remove"}) =>
         /\ p.pc = "done" /\ p.status = 500
         /\ p.req.id \in Ids(db.courses)
         /\ \A c \in Deletes(p) : c.table # "courses"
         /\ \A o \in p.removed : o.bucket # "course-thumbnails"
         /\ \A c \in p.calls :
              c.table \in ChildTables \cup {"timeline_events", "video_progress"}
                => c.key \in Ids(p.cascaded)
         /\ \A c \in Deletes(p) : c.key \in Ids(p.cascaded)
         /\ r = 1 => \A v \in InitVideos(cfg) :
                       v.id \notin Ids(p.cascaded) => Untouched(cfg, v.id)
         /\ \A x \in p.cascaded :
              (x.id # p.failedOn \/ p.failedAt = "dc_remove")
                => VideoGone(db, x.id, EventsOfVideo(cfg, x.id))

C7_Witness ==
  \E r \in Slots :
    /\ proc[r].req.op = "delete-course" /\ proc[r].status = 500
    /\ proc[r].failedAt \in CascadeSteps
    /\ Cardinality(proc[r].cascaded) >= 2
    /\ proc[r].failedOn \in Ids(db.videos)

----------------------------------------------------------------------------
(* C8: a delete-video request that follows one answered 200 for the same   *)
(* id, and in which no call fails, is answered 404 (or 200), never 500; it *)
(* deletes nothing, and the database is the initial one less the video's   *)
(* rows: nothing deleted by the first call is back.                        *)
Without(d, vid, evs) ==
  [d EXCEPT !.videos = { v \in @ : v.id # vid },
            !.timeline_events = { e \in @ : e.video_id # vid },
            !.quizzes = { x \in @ : x.event_id \notin evs },
            !.quiz_attempts = { x \in @ : x.event_id \notin evs },
            !.exam_launches = { x \in @ : x.event_id \notin evs },
            !.video_event_completions = { x \in @ : x.event_id \notin evs },
            !.video_progress = { x \in @ : x.video_id # vid }]

C8_DeleteVideoTwice ==
  \A r \in Slots :
    LET p == proc[r]
    IN (/\ Fresh(r) /\ p.req.op = "delete-video" /\ p.failedAt = ""
        /\ \E q \in Slots : q < r /\ proc[q].status = 200) =>
         /\ p.status \in {200, 404}
         /\ p.status = 404 => Deletes(p) = {} /\ p.removed = {}
         /\ db = Without(InitDb(cfg), p.req.id, EventsOfVideo(cfg, p.req.id))

C8_Witness ==
  \E r \in Slots :
    /\ r > 1 /\ Fresh(r) /\ proc[r].req.op = "delete-video"
    /\ proc[r].status = 404 /\ proc[r - 1].status = 200
    /\ EventsOfVideo(cfg, proc[r].req.id) # {}

----------------------------------------------------------------------------
(* C9: when a request of an allowed caller was answered 500, a retry in    *)
(* which no call fails is answered 200 or 404 and leaves every row and     *)
(* every storage object the request targets removed.                       *)
C9_RetryCompletes ==
  \A r \in Slots :
    LET p == proc[r]
    IN (/\ r > 1 /\ Fresh(r) /\ p.failedAt = "" /\ Allowed(cfg, p.req)
        /\ proc[r - 1].status = 500) =>
         /\ p.status \in {200, 404}
         /\ AllGone(cfg, p.req)

----------------------------------------------------------------------------
(* C10: delete-video requests for one video by allowed callers, running    *)
(* concurrently with no call failing: under every interleaving each is     *)
(* answered 200 or 404, never 500, at least one of them 200, and once all  *)
(* are answered the video and its dependent rows are gone.                 *)
C10_ConcurrentDeleteVideo ==
  /\ \A r \in Slots : proc[r].status \in {0, 200, 404}
  /\ (\A r \in Slots : IsDone(r)) =>
       /\ \E r \in Slots : proc[r].status = 200
       /\ \A r \in Slots :
            VideoGone(db, proc[r].req.id, EventsOfVideo(cfg, proc[r].req.id))

\* two requests that both passed the existence check and both finished:
\* the later one found its storage object already gone
C10_Witness ==
  /\ \A r \in Slots : IsDone(r) /\ proc[r].status = 200
  /\ \E r \in Slots : proc[r].removed # {}
  /\ EventsOfVideo(cfg, proc[1].req.id) # {}

----------------------------------------------------------------------------
(* Requests that reach the resource fetch *)

Verified(rq) == rq.caller # ""

\* the body parses and names an id that is a string and not blank
WellFormed(rq) == rq.json /\ rq.id \notin {"", " "}

TargetTable(rq) == IF rq.op = "delete-video" THEN "videos" ELSE "courses"

\* the target row was there when request r fetched it (requests run one
\* after the other): it still is, or r itself went on to delete it
ExistedAtFetch(r) ==
  LET rq == proc[r].req
  IN \/ Trim(rq.id) \in Ids(db[TargetTable(rq)])
     \/ [call |-> "delete", table |-> TargetTable(rq), key |-> Trim(rq.id)]
          \in proc[r].calls

Denied(rq) ==
  ~ \/ HasRole(rq.caller, "admin")
    \/ HasRole(rq.caller, "teacher") /\ rq.caller = OwnerOf(cfg, rq)

----------------------------------------------------------------------------
(* C11: for a verified caller and a well-formed request, 404 is answered   *)
(* only when the target row was absent at the fetch and 403 only when it   *)
(* was present and the rule denies the caller; and when neither the fetch  *)
(* nor the role read fails, an absent target is answered 404 and a denied  *)
(* caller on a present target 403, whatever the caller's roles.            *)
C11_NotFoundVersusForbidden ==
  \A r \in Slots :
    LET p == proc[r]
    IN (Fresh(r) /\ Verified(p.req) /\ WellFormed(p.req)) =>
         /\ p.status = 404 => ~ExistedAtFetch(r)
         /\ p.status = 403 => ExistedAtFetch(r) /\ Denied(p.req)
         /\ p.failedAt = "" =>
              /\ ~ExistedAtFetch(r) => p.status = 404
              /\ (ExistedAtFetch(r) /\ Denied(p.req)) => p.status = 403

\* C11 as first stated: an absent target is answered 404 and a denied
\* caller 403 in every case, also when a read fails.
C11_ExactlyWhenAbsent ==
  \A r \in Slots :
    LET p == proc[r]
    IN (Fresh(r) /\ Verified(p.req) /\ WellFormed(p.req)) =>
         /\ p.status = 404 <=> ~ExistedAtFetch(r)
         /\ p.status = 403 <=> (ExistedAtFetch(r) /\ Denied(p.req))

\* a caller the rule would deny asks for a course that is not there
C11_Witness ==
  \E r \in Slots :
    /\ Fresh(r) /\ proc[r].status = 404
    /\ proc[r].req.op = "delete-course"
    /\ proc[r].req.caller = "stu"
    /\ proc[r].req.id = "c0"

----------------------------------------------------------------------------
(* C12: a delete-video request of a verified caller whose body cannot be   *)
(* parsed, or whose videoId is missing, not a string or blank, is answered *)
(* 400, and no data-layer call and no storage removal is made for it.      *)
C12_MissingVideoId ==
  \A r \in Slots :
    LET p == proc[r]
    IN (IsDone(r) /\ p.req.op = "delete-video" /\ Verified(p.req)
        /\ ~WellFormed(p.req)) =>
         /\ p.status = 400
         /\ Fresh(r) => p.calls = {} /\ p.removed = {}

\* C12 as first stated: whoever the caller is.
C12_MissingVideoIdAnyCaller ==
  \A r \in Slots :
    LET p == proc[r]
    IN (IsDone(r) /\ p.req.op = "delete-video" /\ ~WellFormed(p.req)) =>
         /\ p.status = 400
         /\ Fresh(r) => p.calls = {} /\ p.removed = {}

\* a blank videoId while the video is there and the caller owns it
C12_Witness ==
  \E r \in Slots :
    /\ Fresh(r) /\ proc[r].status = 400
    /\ proc[r].req.op = "delete-video" /\ proc[r].req.caller = "tA"
    /\ proc[r].req.json /\ proc[r].req.id = " "
    /\ cfg.nv >= 1

----------------------------------------------------------------------------
(* C13: a request of either function whose caller cannot be verified is    *)
(* answered 401 whatever its body says, no read, delete or storage removal *)
(* is made through the service-role client for it, and it changes nothing. *)
C13_UnverifiedCaller ==
  \A r \in Slots :
    LET p == proc[r]
    IN (IsDone(r) /\ ~Verified(p.req)) =>
         /\ p.status = 401
         /\ Fresh(r) => p.calls = {} /\ p.removed = {}
         /\ r = 1 => db = InitDb(cfg) /\ storage = InitStorage(cfg)

\* an unverified caller naming a course that exists
C13_Witness ==
  \E r \in Slots :
    /\ Fresh(r) /\ proc[r].status = 401
    /\ proc[r].req.op = "delete-course" /\ proc[r].req.json
    /\ proc[r].req.id = CourseId

----------------------------------------------------------------------------
(* URL values as the properties describe them *)

\* hosted somewhere else than the storage service
External(url) == url.kind = "url" /\ url.host # "proj.supabase.co"

\* the marker of the bucket occurs in the pathname of the URL
HasMarker(url, bucket) ==
  /\ url.kind = "url"
  /\ LET pn == Pathname(url)
     IN \E i \in 1..Len(pn) : IsPrefixAt(pn, Marker(bucket), i)

\* the URL column the request's resolver call reads
UrlRead(c, rq) == IF rq.op = "delete-video" THEN VideoUrl(c, 1) ELSE ThumbUrl(c)

BucketOf(rq) == IF rq.op = "delete-video" THEN "videos" ELSE "course-thumbnails"

----------------------------------------------------------------------------
----------------------------------------------------------------------------
(* The resolver's result as a request holds it *)

\* proc[r].path is what the resolver returned for the URL the request read
Resolved(r) ==
  \/ proc[r].req.op = "delete-video" /\ proc[r].pc \in CascadeSteps \cup {"dv_remove"}
  \/ proc[r].req.op = "delete-course" /\ proc[r].pc = "dc_thumb"

\* no "%" in the URL other than in the escapes "%20" and "%25"
WellEscaped(url) == \A k \in 1..Len(url.path) : url.path[k] # "%"

GenericMarker == <<"/", "storage", "/", "v1", "/", "object", "/", "public", "/">>

\* the segment after the first "/storage/v1/object/public/" of the pathname
NamedBucket(url) ==
  LET pn == Pathname(url)
      i == IndexOf(pn, GenericMarker)
  IN IF url.kind # "url" \/ i = 0 \/ i + Len(GenericMarker) > Len(pn) THEN ""
     ELSE pn[i + Len(GenericMarker)]

----------------------------------------------------------------------------
----------------------------------------------------------------------------
(* C16: the public URL built for object path P in bucket B resolves,       *)
(* against B, to exactly P, for every P without "?", "#" and dot segments, *)
(* also when P has several segments or contains the marker text.           *)
DotSegment(P, k) ==
  /\ P[k] \in {".", ".."}
  /\ (k = 1 \/ P[k - 1] = "/")
  /\ (k = Len(P) \/ P[k + 1] = "/")

\* the URL parser keeps every character of P in the pathname
Plain(P) ==
  \A k \in 1..Len(P) : P[k] \notin {"?", "#"} /\ ~DotSegment(P, k)

Built(c) == c.object # NoObject

C16_RoundTripPlain ==
  \A r \in Slots :
    /\ (Resolved(r) /\ Built(cfg) /\ Plain(cfg.object)) =>
         proc[r].path.ok /\ proc[r].path.path = cfg.object
    /\ (proc[r].pc = "dc_delete" /\ Built(cfg) /\ Plain(cfg.object)) =>
         proc[r].removed = {[bucket |-> "course-thumbnails", path |-> cfg.object]}

\* C16 as first stated: for every object path.
C16_RoundTripAny ==
  \A r \in Slots :
    (Resolved(r) /\ Built(cfg)) =>
      proc[r].path.ok /\ proc[r].path.path = cfg.object

\* an object path that contains the marker text itself, with several
\* segments, resolved from the URL built for it
C16_Witness ==
  \E r \in Slots :
    /\ Resolved(r) /\ Built(cfg)
    /\ cfg.object = Tail(Marker(BucketOf(proc[r].req))) \o <<"clip.mp4">>
    /\ proc[r].path.path = cfg.object

----------------------------------------------------------------------------
----------------------------------------------------------------------------
(* C18: a well-formed request by an admin (whoever owns the resource) or   *)
(* by a teacher who owns the resource, for a resource that is there when   *)
(* it is fetched, is answered 200 when none of its calls fails.            *)
C18_AllowedSucceeds ==
  \A r \in Slots :
    LET p == proc[r]
    IN (Fresh(r) /\ Verified(p.req) /\ WellFormed(p.req) /\ ExistedAtFetch(r)
        /\ ~Denied(p.req) /\ p.failedAt = "") =>
         p.status = 200

\* an admin deleting a course that a teacher owns and that holds videos
C18_Witness ==
  \E r \in Slots :
    /\ Fresh(r) /\ proc[r].status = 200
    /\ proc[r].req.op = "delete-course" /\ proc[r].req.caller = "adm"
    /\ OwnerOf(cfg, proc[r].req) = "tA"
    /\ cfg.nv >= 2 /\ cfg.ne >= 1

----------------------------------------------------------------------------
(* C19: a delete-video request by a teacher who is not admin removes no    *)
(* object of the videos bucket that lies in another user's folder or that  *)
(* the video_url of another user's video refers to.                        *)
OthersFile(c, caller, o) ==
  \/ o.path # <<>> /\ o.path[1] \in Users \ {caller}
  \/ \E v \in InitVideos(c) :
       /\ v.owner_id # caller
       /\ v.video_url = PublicUrl("videos", o.path)

C19_RemovesOnlyOwnFile ==
  \A r \in Slots :
    LET p == proc[r]
    IN (p.req.op = "delete-video" /\ HasRole(p.req.caller, "teacher")
        /\ ~HasRole(p.req.caller, "admin")) =>
         \A o \in p.removed :
           (o.bucket = "videos" /\ o \in InitStorage(cfg) /\ o \notin storage)
             => ~OthersFile(cfg, p.req.caller, o)

----------------------------------------------------------------------------
(* C20: the body of a 400, 401, 403 or 404 response carries one of the     *)
(* handlers' own fixed messages; the body of a 500 response carries the    *)
(* message of the data-layer or storage call that failed, as that call     *)
(* worded it.                                                              *)
FixedMessages ==
  { <<"Unauthorized">>, <<"Invalid JSON">>, <<"Missing videoId">>,
    <<"Missing courseId">>, <<"Video not found">>, <<"Course not found">>,
    <<"Forbidden">> }

TableNames ==
  { "courses", "videos", "timeline_events", "quizzes", "quiz_attempts",
    "exam_launches", "video_event_completions", "video_progress", "user_roles" }

C20_ErrorBodies ==
  \A r \in Slots :
    LET p == proc[r]
    IN (Fresh(r) /\ p.status # 200) =>
         /\ p.status \in {400, 401, 403, 404} => p.error \in FixedMessages
         /\ p.status = 500 =>
              /\ p.failedAt # ""
              /\ p.failedAt \in {"dv_remove", "dc_remove", "dc_thumb"}
                   => \E e \in p.rmErrs : p.error = <<e.message>>
              /\ p.failedAt \notin {"dv_remove", "dc_remove", "dc_thumb"}
                   => p.error \in { DataError(e, t) : e \in Errs \ {""}, t \in TableNames }

\* C20 as first stated: every error body is one of the fixed messages and
\* names no table, no id and no storage path.
C20_OnlyFixedMessages ==
  \A r \in Slots :
    LET p == proc[r]
    IN (Fresh(r) /\ p.status # 200) =>
         /\ p.error \in FixedMessages
         /\ \A k \in 1..Len(p.error) : p.error[k] \notin TableNames

\* a failed delete whose message, naming the table, is the response body
C20_Witness ==
  \E r \in Slots :
    /\ Fresh(r) /\ proc[r].status = 500
    /\ proc[r].failedAt = "cas_video"
    /\ proc[r].error = <<"relation does not exist", "videos">>

----------------------------------------------------------------------------
(* Rows that hold the URL of a storage object *)

VideoRowsNaming(d, o) ==
  { v \in d.videos : ResolvePath(v.video_url, "videos") = [ok |-> TRUE, path |-> o.path] }

CourseRowsNaming(d, o) ==
  { c \in d.courses :
      ResolvePath(c.thumbnail_url, "course-thumbnails") = [ok |-> TRUE, path |-> o.path] }

----------------------------------------------------------------------------
(* C22: the removal of a video file is issued only once no video row holds *)
(* its URL any more.  The removal of a thumbnail is issued once no video   *)
(* row of the course is left, but while the course row that holds its URL  *)
(* is still there: that row is deleted afterwards.                         *)
C22_VideoRowsBeforeObjects ==
  [][\A r \in Slots : \A o \in proc'[r].removed \ proc[r].removed :
       /\ o.bucket = "videos" => VideoRowsNaming(db, o) = {}
       /\ o.bucket = "course-thumbnails" =>
            /\ \A v \in db.videos : v.course_id # proc[r].req.id
            /\ proc[r].req.id \in Ids(CourseRowsNaming(db, o))]_vars

\* C22 as first stated: for the thumbnail too, the row that holds the URL
\* of the object is deleted before the removal is issued.
C22_RowsBeforeObjects ==
  [][\A r \in Slots : \A o \in proc'[r].removed \ proc[r].removed :
       /\ o.bucket = "videos" => VideoRowsNaming(db, o) = {}
       /\ o.bucket = "course-thumbnails" => CourseRowsNaming(db, o) = {}]_vars

\* a delete-course that removed a video file and the thumbnail and is about
\* to delete the course row
C22_Witness ==
  \E r \in Slots :
    /\ proc[r].pc = "dc_delete"
    /\ \E o \in proc[r].removed : o.bucket = "videos"
    /\ \E o \in proc[r].removed : o.bucket = "course-thumbnails"
    /\ proc[r].req.id \in Ids(db.courses)

----------------------------------------------------------------------------
(* The delete steps of the cascade in the order the code issues them *)

DeleteSteps ==
  <<"cas_quizzes", "cas_attempts", "cas_launches", "cas_completions",
    "cas_tevents", "cas_progress", "cas_video">>

StepTable(step) ==
  CASE step \in {"cas_quizzes", "cas_attempts", "cas_launches", "cas_completions"}
         -> InTable(step)
    [] step = "cas_tevents"  -> "timeline_events"
    [] step = "cas_progress" -> "video_progress"
    [] step = "cas_video"    -> "videos"

\* position of a step among the delete steps, 0 for the events fetch
StepIndex(step) ==
  IF step = "cas_events" THEN 0
  ELSE CHOOSE k \in 1..Len(DeleteSteps) : DeleteSteps[k] = step

\* the rows of table t that belong to video vid
RowsOfVideo(c, d, t, vid) ==
  CASE t = "videos" -> { x \in d[t] : x.id = vid }
    [] t \in {"timeline_events", "video_progress"} -> { x \in d[t] : x.video_id = vid }
    [] OTHER -> { x \in d[t] : x.event_id \in EventsOfVideo(c, vid) }

----------------------------------------------------------------------------
(* C23: when a call of the cascade fails, the request is answered 500 at   *)
(* once: for that video no delete of a later step and no storage removal   *)
(* is issued, what the earlier steps deleted stays deleted, and when the    *)
(* failing call is a delete the video row is still there.                  *)
C23_CascadeFailsFast ==
  \A r \in Slots :
    LET p == proc[r]
        k == StepIndex(p.failedAt)
    IN p.failedAt \in CascadeSteps =>
         /\ p.pc = "done" /\ p.status = 500
         /\ \A c \in Deletes(p) :
              c.key = p.failedOn =>
                \E j \in 1..k : StepTable(DeleteSteps[j]) = c.table
         /\ \A o \in p.removed : o \notin VideoObjects(cfg, p.failedOn)
         /\ \A j \in 1..Len(DeleteSteps) :
              (j < k /\ [call |-> "delete", table |-> StepTable(DeleteSteps[j]),
                         key |-> p.failedOn] \in p.calls)
                => RowsOfVideo(cfg, db, StepTable(DeleteSteps[j]), p.failedOn) = {}
         /\ k >= 1 => p.failedOn \in Ids(db.videos)

\* the delete of the video row fails after the events of the video and
\* their dependents were deleted
C23_Witness ==
  \E r \in Slots :
    /\ IsDone(r) /\ proc[r].status = 500 /\ proc[r].failedAt = "cas_video"
    /\ EventsOfVideo(cfg, proc[r].failedOn) # {}
    /\ RowsOfVideo(cfg, InitDb(cfg), "quizzes", proc[r].failedOn) # {}
    /\ RowsOfVideo(cfg, db, "timeline_events", proc[r].failedOn) = {}
    /\ proc[r].failedOn \in Ids(db.videos)

----------------------------------------------------------------------------
(* C25: delete-video on a video without timeline events issues a delete    *)
(* on video_progress and on videos and on no other table; answered 200, it *)
(* has deleted the progress rows and the video row and nothing else, and   *)
(* has removed the object its video_url resolved to, if any.               *)
EventTables == ChildTables \cup {"timeline_events"}

\* the events fetch of request r returned no row
FetchedNoEvents(r) ==
  /\ proc[r].pc \in (CascadeSteps \ {"cas_events"}) \cup {"dv_remove"}
  /\ proc[r].eventIds = {}

C25_NoEventTableWrites ==
  \A r \in Slots :
    LET p == proc[r]
        vid == Trim(p.req.id)
    IN (p.req.op = "delete-video"
        /\ (EventsOfVideo(cfg, vid) = {} \/ FetchedNoEvents(r))) =>
         /\ \A c \in Deletes(p) : c.table \in {"video_progress", "videos"}
         /\ p.pc \notin {"cas_quizzes", "cas_attempts", "cas_launches",
                         "cas_completions", "cas_tevents"}
         /\ (IsDone(r) /\ p.status = 200) =>
              /\ db = Without(InitDb(cfg), vid, {})
              /\ storage = InitStorage(cfg) \ VideoObjects(cfg, vid)
              /\ Fresh(r) => p.removed = VideoObjects(cfg, vid)

\* a video without events, with progress rows and a stored file, deleted
\* while the other video of the course has an event
C25_Witness ==
  \E r \in Slots :
    /\ Fresh(r) /\ proc[r].status = 200 /\ proc[r].req.op = "delete-video"
    /\ EventsOfVideo(cfg, proc[r].req.id) = {}
    /\ cfg.ne >= 1
    /\ proc[r].removed # {}
    /\ [call |-> "delete", table |-> "video_progress", key |-> proc[r].req.id]
         \in proc[r].calls

----------------------------------------------------------------------------
(* C26: a request that was received is answered, and answered once: the    *)
(* response, once given, stays as it is.  The loop of delete-course takes  *)
(* up each fetched video at most once, and the calls issued for one video  *)
(* number at most one per cascade step plus the storage removal, however   *)
(* many events the video has: with events every step and at most one       *)
(* removal, without events three steps and at most one removal.            *)
CallsWithEvents == Cardinality(CascadeSteps)

CallsWithoutEvents == Cardinality({"cas_events", "cas_progress", "cas_video"})

AnsweredOnce(r) ==
  proc[r].pc = "done" =>
    /\ proc'[r].pc = "done"
    /\ proc'[r].status = proc[r].status
    /\ proc'[r].req = proc[r].req

BoundedWork(r) ==
  LET p == proc'[r]
  IN p.req.op = "delete-course" =>
       /\ \A x \in p.visits : x.n <= 1
       /\ \A x \in p.visits :
            Count(p.ncalls, x.id)
              <= (IF EventsOfVideo(cfg, x.id) = {} THEN CallsWithoutEvents
                  ELSE CallsWithEvents) + Cardinality(VideoObjects(cfg, x.id))
       /\ (p.pc = "done" /\ p.status = 200) =>
            \A v \in InitVideos(cfg) :
              Count(p.ncalls, v.id)
                = (IF EventsOfVideo(cfg, v.id) = {} THEN CallsWithoutEvents
                   ELSE CallsWithEvents) + Cardinality(VideoObjects(cfg, v.id))

C26_TerminatesBounded ==
  /\ \A r \in Slots : (proc[r].pc # "idle") ~> (proc[r].pc = "done")
  /\ [][\A r \in Slots : AnsweredOnce(r) /\ BoundedWork(r)]_vars

\* a delete-course answered 200 after its loop took up a video that has
\* more than one event
C26_Witness ==
  \E r \in Slots :
    /\ IsDone(r) /\ proc[r].status = 200 /\ proc[r].req.op = "delete-course"
    /\ \E x \in proc[r].visits :
         /\ Cardinality(EventsOfVideo(cfg, x.id)) >= 2
         /\ Count(proc[r].ncalls, x.id) = CallsWithEvents + 1

----------------------------------------------------------------------------
(* What a delete-storage-object body names, as the properties read it *)

Blank(P) == \A k \in 1..Len(P) : P[k] = " "

\* the first non-blank token of P is user u and a "/" follows it
InFolderOf(P, u) ==
  \E k \in 1..Len(P) :
    /\ \A j \in 1..(k - 1) : P[j] = " "
    /\ P[k] = u
    /\ k < Len(P) /\ P[k + 1] = "/"

NamesVideosBucket(rq) == rq.bucket = "videos"

----------------------------------------------------------------------------
(* C21: delete-storage-object issues a removal only for a verified caller, *)
(* the bucket videos and a path that begins with the caller's id and "/".  *)
(* For a verified caller whose body parses and names a bucket and a path:  *)
(* another bucket is answered 400, another path 403, and in both cases no  *)
(* removal is issued and the storage stays as it is.                       *)
C21_RemovesOwnUploadsOnly ==
  \A r \in Slots :
    LET p == proc[r]
        rq == p.req
    IN rq.op = "delete-storage-object" =>
         /\ (p.pc = "dso_remove" \/ p.removed # {}) =>
              /\ Verified(rq) /\ rq.json /\ NamesVideosBucket(rq)
              /\ InFolderOf(rq.path, rq.caller)
              /\ \A o \in p.removed :
                   o.bucket = "videos" /\ o.path # <<>> /\ o.path[1] = rq.caller
         /\ (IsDone(r) /\ Verified(rq) /\ rq.json /\ ~Blank(rq.path)
             /\ rq.bucket \notin {"", " "}) =>
              /\ ~NamesVideosBucket(rq) => p.status = 400
              /\ (NamesVideosBucket(rq) /\ ~InFolderOf(rq.path, rq.caller))
                   => p.status = 403
              /\ p.status \in {400, 403} =>
                   storage = InitStorage(cfg) /\ (Fresh(r) => p.removed = {})

\* C21 as first stated: any other bucket is answered 400 and any other path
\* 403, whoever calls and whatever else the body holds.
C21_OtherBucket400OtherPath403 ==
  \A r \in Slots :
    LET p == proc[r]
        rq == p.req
    IN (IsDone(r) /\ rq.op = "delete-storage-object") =>
         /\ ~NamesVideosBucket(rq) => p.status = 400
         /\ (NamesVideosBucket(rq) /\ ~InFolderOf(rq.path, rq.caller))
              => p.status = 403

\* a teacher naming the stored file of another teacher's video: 403, and
\* the file is still there
C21_Witness ==
  \E r \in Slots :
    /\ Fresh(r) /\ proc[r].status = 403
    /\ proc[r].req.op = "delete-storage-object"
    /\ proc[r].req.caller = "tA" /\ proc[r].req.bucket = "videos"
    /\ proc[r].req.path = VideoObject(cfg, MaxVideos)
    /\ [bucket |-> "videos", path |-> proc[r].req.path] \in storage

----------------------------------------------------------------------------
(* C27: under every interleaving of bootstrap-admin requests at most one   *)
(* user holds an admin role that a bootstrap-admin request inserted; a     *)
(* request that checks while an admin row exists is answered 409 and a     *)
(* request with a wrong token 403, neither inserting anything.             *)
BootstrappedAdmins == { x \in db.user_roles : x.role = "admin" /\ x.user_id # "adm" }

C27_AtMostOneBootstrappedAdmin ==
  /\ Cardinality(BootstrappedAdmins) <= 1
  /\ \A r \in Slots :
       proc[r].status \in {403, 409} => proc[r].wrote = {}

----------------------------------------------------------------------------
(* Vocabulary of the learner properties: the event a request names, with   *)
(* its video and its quiz, as the tables hold them.                        *)
IsLearn(r) == proc[r].req.op \in LearnOps

NamedEvents(r) == { e \in db.timeline_events : e.id = proc[r].req.eventId }

NamesQuizEvent(r) == \E e \in NamedEvents(r) : e.type = "quiz"

AnswersCorrectly(r) ==
  \E q \in db.quizzes :
    q.event_id = proc[r].req.eventId /\ q.correct_index = proc[r].req.selectedIndex

WroteIn(r, table) == { w.row : w \in { x \in proc[r].wrote : x.table = table } }

MayAccess(r) ==
  \E e \in NamedEvents(r) : \E v \in db.videos :
    /\ v.id = e.video_id
    /\ \/ v.published
       \/ v.owner_id = proc[r].req.caller
       \/ [user_id |-> proc[r].req.caller, role |-> "admin"] \in db.user_roles

(* C29: a completion row of a quiz-type event is inserted only by a        *)
(* quiz-attempt request whose selected index is the quiz's correct index;  *)
(* event-complete writes nothing for a quiz-type event and answers 400     *)
(* once it has fetched it; a quiz-attempt answered 200 has inserted        *)
(* exactly one attempt row, is_correct telling whether the index was the   *)
(* correct one; an incorrect attempt inserts no completion and writes no   *)
(* progress.                                                               *)
C29_QuizCompletionOnlyByCorrectAttempt ==
  [][ /\ \A x \in db'.video_event_completions \ db.video_event_completions :
           (\E e \in db.timeline_events : e.id = x.event_id /\ e.type = "quiz") =>
             \E r \in Slots :
               /\ proc[r].req.op = "quiz-attempt" /\ proc[r].pc = "qa_completion"
               /\ proc[r].req.eventId = x.event_id /\ proc[r].req.caller = x.user_id
               /\ AnswersCorrectly(r)
      /\ \A r \in Slots :
           /\ proc'[r].req.op = "event-complete" /\ (\E e \in NamedEvents(r) : e.type = "quiz")'
                => /\ proc'[r].wrote = {}
                   /\ proc'[r].pc = "done" /\ proc'[r].status # 500 /\ proc'[r].req.json
                        => proc'[r].status = 400
           /\ proc'[r].req.op = "quiz-attempt" /\ proc'[r].status = 200
              /\ proc[r].pc # "done" =>
                \E a \in db'.quiz_attempts :
                  /\ WroteIn(r, "quiz_attempts")' = {a}
                  /\ a.user_id = proc'[r].req.caller /\ a.event_id = proc'[r].req.eventId
                  /\ a.selected_index = proc'[r].req.selectedIndex
                  /\ a.is_correct = AnswersCorrectly(r)'
           /\ proc'[r].req.op = "quiz-attempt" /\ ~AnswersCorrectly(r)' =>
                /\ WroteIn(r, "video_event_completions")' = {}
                /\ WroteIn(r, "video_progress")' = {}
                /\ proc[r].pc # "idle" =>
                     /\ db'.video_event_completions = db.video_event_completions
                     /\ db'.video_progress = db.video_progress ]_vars

C29_Witness ==
  \E r \in Slots :
    /\ proc[r].req.op = "quiz-attempt" /\ proc[r].status = 200
    /\ AnswersCorrectly(r)
    /\ proc[r].req.caller = "tA"
    /\ [user_id |-> "tA", event_id |-> proc[r].req.eventId]
         \in WroteIn(r, "video_event_completions")
    /\ \E a \in WroteIn(r, "quiz_attempts") : a.is_correct

(* C30: quiz-attempt and event-complete write a row only when the video of *)
(* the event is published, or the caller owns it, or the caller is admin;  *)
(* a request that reaches the access decision without that is answered 403 *)
(* and has written nothing; an anonymous event-complete writes nothing,    *)
(* whatever it is answered.                                                *)
ReachedDecision(r) == proc[r].pc = "done" /\ proc[r].status \in {200, 403}

C30_WritesNeedAccess ==
  \A r \in Slots : IsLearn(r) =>
    /\ proc[r].wrote # {} => MayAccess(r)
    /\ ReachedDecision(r) /\ ~MayAccess(r) => proc[r].status = 403 /\ proc[r].wrote = {}
    /\ proc[r].pc \in {"qa_attempt", "qa_completion", "qa_progress", "qa_write",
                       "ec_completion", "ec_progress", "ec_write"} => MayAccess(r)
    /\ proc[r].req.caller = "" => proc[r].wrote = {}

(* C30 as stated: without access every answer is 403 *)
C30_NoAccessAlways403 ==
  \A r \in Slots : IsLearn(r) /\ proc[r].pc = "done" /\ ~MayAccess(r)
    => proc[r].status = 403 /\ proc[r].wrote = {}

C30_Witness ==
  \E r \in Slots :
    /\ proc[r].req.op = "quiz-attempt" /\ proc[r].req.caller = "stu"
    /\ NamesQuizEvent(r) /\ ~MayAccess(r)
    /\ proc[r].status = 403 /\ proc[r].wrote = {}

----------------------------------------------------------------------------
(* C28: for every user and video, under every interleaving of quiz-attempt *)
(* and event-complete requests, unlocked_until_seconds never decreases, at *)
(* most one progress row exists, and once a request that recorded the      *)
(* completion of an event was answered 200 the stored value is at least    *)
(* the event's at_seconds.                                                 *)
ProgressOf(d, u, v) == { x \in d.video_progress : x.user_id = u /\ x.video_id = v }

RecordedCompletion(r) ==
  /\ IsLearn(r) /\ proc[r].pc = "done" /\ proc[r].status = 200
  /\ \E w \in proc[r].calls : w.call = "insert" /\ w.table = "video_event_completions"

C28_ProgressNeverDecreases ==
  /\ [][ \A x \in db.video_progress : \A y \in db'.video_progress :
           x.user_id = y.user_id /\ x.video_id = y.video_id
             => y.unlocked_until_seconds >= x.unlocked_until_seconds ]_vars
  /\ [](\A u \in Users : \A v \in db.videos :
          Cardinality(ProgressOf(db, u, v.id)) <= 1)
  /\ [](\A r \in Slots : RecordedCompletion(r) =>
          \A e \in NamedEvents(r) :
            \E x \in ProgressOf(db, proc[r].req.caller, e.video_id) :
              x.unlocked_until_seconds >= e.at_seconds)

----------------------------------------------------------------------------
(* C24: when quiz-attempt, event-complete, the creation of an event or of  *)
(* a video run next to a delete-video or delete-course answered 200, no    *)
(* row is left that refers to the deleted video, its events or the deleted *)
(* course.                                                                 *)
EventChildTables == {"quizzes", "quiz_attempts", "exam_launches", "video_event_completions"}

\* every row has its parent
NoOrphans(d) ==
  /\ \A t \in EventChildTables : \A x \in d[t] : x.event_id \in Ids(d.timeline_events)
  /\ \A e \in d.timeline_events : e.video_id \in Ids(d.videos)
  /\ \A x \in d.video_progress : x.video_id \in Ids(d.videos)
  /\ \A v \in d.videos : v.course_id \in Ids(d.courses)

Deleted200(r) ==
  proc[r].req.op \in Ops /\ proc[r].pc = "done" /\ proc[r].status = 200

TargetGone(r) ==
  IF proc[r].req.op = "delete-video"
  THEN /\ proc[r].req.id \notin Ids(db.videos)
       /\ \A e \in db.timeline_events : e.video_id # proc[r].req.id
       /\ \A x \in db.video_progress : x.video_id # proc[r].req.id
  ELSE /\ proc[r].req.id \notin Ids(db.courses)
       /\ \A v \in db.videos : v.course_id # proc[r].req.id

C24_NothingRefersToDeleted ==
  /\ NoOrphans(db)
  /\ \A r \in Slots : Deleted200(r) => TargetGone(r)

\* the rows of a table by their keys
RowKeys(d, t) ==
  IF t = "video_progress" THEN { <<x.user_id, x.video_id>> : x \in d[t] }
  ELSE IF t = "video_event_completions" THEN { <<x.user_id, x.event_id>> : x \in d[t] }
  ELSE IF t = "exam_launches" THEN { <<x.user_id, x.event_id>> : x \in d[t] }
  ELSE IF t = "quizzes" THEN { <<x.event_id>> : x \in d[t] }
  ELSE IF t = "quiz_attempts" THEN { <<x.id, x.event_id>> : x \in d[t] }
  ELSE { <<x.id>> : x \in d[t] }

\* the delete statement a slot is about to issue names this table
DeletesFrom(r, t) ==
  \/ proc[r].pc \in {"cas_quizzes", "cas_attempts", "cas_launches", "cas_completions",
                     "cas_tevents", "cas_progress", "cas_video"}
       /\ StepTable(proc[r].pc) = t
  \/ proc[r].pc = "dc_delete" /\ t = "courses"

(* C24 as stated: and every row that goes is deleted by the statement the *)
(* engine issues on its table, none by the foreign keys                   *)
C24_EngineDeletesAlone ==
  /\ [](C24_NothingRefersToDeleted)
  /\ [][ \A t \in EventChildTables \cup {"timeline_events", "video_progress",
                                         "videos", "courses"} :
           RowKeys(db, t) \ RowKeys(db', t) # {} =>
             \E r \in Slots : proc'[r] # proc[r] /\ DeletesFrom(r, t) ]_vars

C24_Witness ==
  /\ \E r \in Slots : Deleted200(r) /\ TargetGone(r)
  /\ \E r \in Slots :
       /\ IsLearn(r) /\ proc[r].status = 500
       /\ Head(proc[r].error) = "violates foreign key constraint"

====
